---- MODULE Spec2Model ----
(***************************************************************************)
(* Harptos Horology: the calendar-date arithmetic of app.py (sanitize,     *)
(* advance, ordinal), the current-date sync against the persisted state,   *)
(* and the event store with its day index.                                 *)
(*                                                                         *)
(* Three specifications share the variables:                               *)
(*   DateSpec  the pure date functions applied to bounded inputs           *)
(*   SyncSpec  the current-date handlers and the sync run                  *)
(*   Spec      the event handlers, the event store and the day index       *)
(***************************************************************************)
EXTENDS Integers, Sequences, FiniteSets, TLC

VARIABLES
    \* ---- DateSpec: a harness applying the pure functions
    stage,      \* which function was applied last
    raw,        \* the raw (year, month, day) triple given to sanitize_harptos_date
    hA,         \* a HarptosDate
    hB,         \* a second HarptosDate (re-sanitized / advanced / compared)
    ordA,       \* harptos_ordinal of hA
    ordB,       \* harptos_ordinal of hB
    hS,         \* the date step_harptos gives where advance_one gives hB
    steps,      \* how many days hB and hS are after hA
    \* ---- SyncSpec: the current date, in the session and persisted
    current,    \* reactive value `current`: NoneDate or a HarptosDate
    db_cur,     \* state table, key "current_date": the stored JSON value
    db_last,    \* state table, key "last_checked": the stored JSON value
    today,      \* date.today(), as a day number
    run,        \* per sync effect: position in sync_global_current_date and its locals
    crashed,    \* "" or the place where an effect raised (the session is closed)
    cur0,       \* history (RunsSpec, RaceSpec, FailSpec): "current_date" as found at first
    last0,      \* history (RunsSpec, RaceSpec, FailSpec): "last_checked" as found at first
    \* ---- the rendered calendar (main_view with the calendar selected)
    indexed,    \* build_calendar_ui: (year, month, day) -> list of events
    \* ---- Spec: the events
    db_events,  \* events table of the persistence collaborator: raw rows
    events,     \* reactive value `events`: the normalized rows
    selected_date,      \* reactive value: NoneDate or a HarptosDate
    selected_event_id,  \* reactive value: NoId or an event id
    modal,      \* the modal shown: none, the day's details or the event form
    saved_rec,  \* the record _save_event built last
    drafts,     \* what parse_session_notes_text returned last: [records, errors]
    loaded,     \* the row objects load_events returned last: as given and as they are
    \* ---- TimelineSpec: a harness applying build_timeline_ui
    tl_stage,       \* "off", "in", "ordered", "sorted", "shown"
    tl_rows,        \* events.get(): the rows in the order of the store
    tl_perm,        \* the same rows in another order
    tl_sorted,      \* rows_sorted of tl_rows
    tl_perm_sorted, \* rows_sorted of tl_perm
    tl_search,      \* input.timeline_search
    tl_shown,       \* rows_filtered
    \* ---- ParseSpec: a harness applying parse_session_notes_text
    p_stage,    \* "off", "in", "parsed"
    p_text,     \* the text: its lines
    p_parts,    \* per block of the text: its drafts and its errors
    p_out,      \* the result: [records, errors]
    p_alone     \* per block of the text: the result of the block parsed as a text

dateVars == <<stage, raw, hA, hB, ordA, ordB, hS, steps>>
syncVars == <<current, db_cur, db_last, today, run, crashed, cur0, last0>>
viewVars == <<indexed>>
evVars   == <<db_events, events, selected_date, selected_event_id, modal, saved_rec, drafts,
             loaded>>
tlVars   == <<tl_stage, tl_rows, tl_perm, tl_sorted, tl_perm_sorted, tl_search, tl_shown>>
parseVars == <<p_stage, p_text, p_parts, p_out, p_alone>>

vars == <<stage, raw, hA, hB, ordA, ordB, hS, steps, current, db_cur, db_last, today, run, crashed,
          cur0, last0,
          indexed, db_events, events, selected_date, selected_event_id, modal,
          saved_rec, drafts, loaded, tl_stage, tl_rows, tl_perm, tl_sorted, tl_perm_sorted,
          tl_search, tl_shown, p_stage, p_text, p_parts, p_out, p_alone>>

-----------------------------------------------------------------------------
(* Bounds of the model *)

\* how far outside 1..12 / 1..31 the raw month and day inputs reach
Slack == 2
\* the years of the inputs are BaseYear .. BaseYear + YearSpan
YearSpan == 1
\* the real clock runs over the days 0 .. MaxToday
MaxToday == 2
\* the events table holds at most MaxEvents rows
MaxEvents == 2
\* the timeline is built of at most MaxRows events
MaxRows == 3
\* a notes text is made of at most MaxChunks pieces
MaxChunks == 2

-----------------------------------------------------------------------------
(* Constants & Config (app.py 38-60) *)

\* len(MONTHS)
NumMonths == 12
DAYS_PER_MONTH == 30
\* the keys of FESTIVALS
FESTIVALS == {1, 4, 7, 9, 11}
\* DEFAULT_CURRENT["year"]
BaseYear == 1492
DEFAULT_CURRENT == [year |-> BaseYear, month |-> 1, day |-> 1]

\* an unset date (reactive.Value(None))
NoneDate == [year |-> 0, month |-> 0, day |-> 0]

Max(a, b) == IF a >= b THEN a ELSE b
Min(a, b) == IF a <= b THEN a ELSE b

HarptosDate(y, m, d) == [year |-> y, month |-> m, day |-> d]

-----------------------------------------------------------------------------
(* Logic helpers (app.py 372-405) *)

festivals_before_inclusive(month) == Cardinality({m \in FESTIVALS : m <= month})

\* sum(1 for m in FESTIVALS if m < month)
festivals_before(month) == Cardinality({m \in FESTIVALS : m < month})

harptos_ordinal_360(y, m, d) ==
    y * 360 + (m - 1) * 30 + (IF d = 31 /\ m \in FESTIVALS THEN 30 ELSE d - 1)

harptos_ordinal(y, m, d) ==
    LET base      == y * 365
        before    == (m - 1) * 30 + festivals_before(m)
        day_index == before + (IF d = 31 /\ m \in FESTIVALS THEN 30 ELSE d - 1)
    IN  base + day_index

\* the festival day is skipped: day 30 always rolls over to the next month
advance_one_no_festival(h) ==
    LET y == h.year
        m == h.month
        d == h.day
    IN  IF d >= 30
        THEN HarptosDate(y + (IF m = 12 THEN 1 ELSE 0), IF m = 12 THEN 1 ELSE m + 1, 1)
        ELSE IF 1 <= d THEN HarptosDate(y, m, d + 1)
        ELSE HarptosDate(y, 1, 1)

\* day 30 is followed by day 31 in every month
advance_one_any_31(h) ==
    LET y == h.year
        m == h.month
        d == h.day
    IN  IF d = 31
        THEN HarptosDate(y + (IF m = 12 THEN 1 ELSE 0), IF m = 12 THEN 1 ELSE m + 1, 1)
        ELSE IF 1 <= d /\ d < 30 THEN HarptosDate(y, m, d + 1)
        ELSE IF d = 30 THEN HarptosDate(y, m, 31)
        ELSE HarptosDate(y, 1, 1)

advance_one(h) ==
    LET y == h.year
        m == h.month
        d == h.day
    IN  IF d = 31
        THEN HarptosDate(y + (IF m = 12 THEN 1 ELSE 0), IF m = 12 THEN 1 ELSE m + 1, 1)
        ELSE IF 1 <= d /\ d < 30 THEN HarptosDate(y, m, d + 1)
        ELSE IF d = 30
        THEN IF m \in FESTIVALS
             THEN HarptosDate(y, m, 31)
             ELSE HarptosDate(y + (IF m = 12 THEN 1 ELSE 0),
                              IF m = 12 THEN 1 ELSE m + 1, 1)
        ELSE HarptosDate(y, 1, 1)

\* day 31 is allowed in every month
sanitize_any_31(y, m, d) ==
    LET m2 == Max(1, Min(12, m))
        d2 == Max(1, Min(31, d))
    IN  HarptosDate(y, m2, d2)

\* the month is taken as a 0-based index into MONTHS
sanitize_month_index(y, m, d) ==
    LET m2      == Max(1, Min(12, m + 1))
        max_day == IF m2 \in FESTIVALS THEN 31 ELSE 30
        d2      == Max(1, Min(max_day, d))
    IN  HarptosDate(y, m2, d2)

sanitize_harptos_date(y, m, d) ==
    LET m2      == Max(1, Min(12, m))
        max_day == IF m2 \in FESTIVALS THEN 31 ELSE 30
        d2      == Max(1, Min(max_day, d))
    IN  HarptosDate(y, m2, d2)

-----------------------------------------------------------------------------
(* Event rows *)

\* no event id (None); event ids are the positive numbers
NoId == 0
\* text values: a title or a line of notes
Txt(n)   == [t |-> "txt", v |-> n]
EmptyTxt == [t |-> "empty", v |-> 0]

\* a row of the events table, as load_events returns it
RawRow(id, y, m, d, title) == [id |-> id, year |-> y, month |-> m, day |-> d, title |-> title]
\* an event with integer date fields
EventRow(id, y, m, d, title) == [id |-> id, year |-> y, month |-> m, day |-> d, title |-> title]

NoRecord == EventRow(NoId, 0, 0, 0, EmptyTxt)
NoModal  == [kind |-> "none", date |-> NoneDate, day_events |-> <<>>, event_id |-> NoId]
NoDrafts == [records |-> <<>>, errors |-> <<>>]

-----------------------------------------------------------------------------
(* The calendar view (app.py 614-630, 847-859) *)

\* key = (int(e["year"]), int(e["month"]), int(e["day"]))
event_key(e) == <<e.year, e.month, e.day>>

\* the index keeps one event per key: indexed[key] = [e]
build_index_last(ev_data) ==
    LET keys == {event_key(ev_data[i]) : i \in 1 .. Len(ev_data)}
        last(k) == CHOOSE i \in 1 .. Len(ev_data) :
                      /\ event_key(ev_data[i]) = k
                      /\ \A j \in 1 .. Len(ev_data) : event_key(ev_data[j]) = k => j <= i
    IN  [k \in keys |-> <<ev_data[last(k)]>>]

\* the index is keyed by month and day, whatever the year
build_index_any_year(ev_data) ==
    LET keys == {event_key(ev_data[i]) : i \in 1 .. Len(ev_data)}
        on_day(k) == LET Same(e) == e.month = k[2] /\ e.day = k[3]
                     IN  SelectSeq(ev_data, Same)
    IN  [k \in keys |-> on_day(k)]

\* lines 854-857: indexed = defaultdict(list); indexed[key].append(e)
build_index(ev_data) ==
    LET keys == {event_key(ev_data[i]) : i \in 1 .. Len(ev_data)}
        on_day(k) == LET Same(e) == event_key(e) = k
                     IN  SelectSeq(ev_data, Same)
    IN  [k \in keys |-> on_day(k)]

\* indexed_events.get(key, [])
index_get(ix, key) == IF key \in DOMAIN ix THEN ix[key] ELSE <<>>

\* the tiles of the twelve month cards: days 1..30, and 31 in a festival month
TileDays == {<<m, d>> : m \in 1 .. NumMonths, d \in 1 .. DAYS_PER_MONTH}
                \cup {<<m, DAYS_PER_MONTH + 1>> : m \in FESTIVALS}

\* month_card for m in 1..12: the events handed to each day tile
month_cards(cur, ix) ==
    LET view_year == IF cur = NoneDate THEN BaseYear ELSE cur.year
    IN  [t \in TileDays |-> index_get(ix, <<view_year, t[1], t[2]>>)]

\* main_view re-rendered in the flush that follows a change of events; the
\* month cards read the index through month_cards
RenderCalendar(ev_data) == indexed' = build_index(ev_data)

-----------------------------------------------------------------------------
(* Strings: Python str operations on the characters the model uses *)

\* the characters of the model's strings, in code point order
Alphabet == " #,-0123456789ABCDEFGHIJKLMNOPQRSTUVWXYZ_abcdefghijklmnopqrstuvwxyz"

Char(str, i) == SubSeq(str, i, i)
\* the place of each character in Alphabet (the order of ord())
CodeOf ==
    [c \in {Char(Alphabet, i) : i \in 1 .. Len(Alphabet)} |->
        CHOOSE i \in 1 .. Len(Alphabet) : Char(Alphabet, i) = c]
Code(c) == CodeOf[c]
IsDigit(c) == Code(c) \in Code("0") .. Code("9")
IsUpper(c) == Code(c) \in Code("A") .. Code("Z")
\* \w of the regular expressions
IsWord(c) == IsDigit(c) \/ IsUpper(c) \/ Code(c) \in Code("_") .. Code("z")

\* str.lower() / str.casefold() of one character
LowerOf ==
    [c \in DOMAIN CodeOf |->
        IF CodeOf[c] \in CodeOf["A"] .. CodeOf["Z"]
        THEN Char(Alphabet, CodeOf[c] + (CodeOf["a"] - CodeOf["A"]))
        ELSE c]
lower_char(c) == LowerOf[c]

RECURSIVE str_lower(_)
\* str.lower(): each character lowered (the string is halved, not walked)
str_lower(str) ==
    IF Len(str) = 0 THEN ""
    ELSE IF Len(str) = 1 THEN lower_char(str)
    ELSE LET half == Len(str) \div 2
         IN  str_lower(SubSeq(str, 1, half)) \o str_lower(SubSeq(str, half + 1, Len(str)))

\* a < b of two str: by the first character that differs, a prefix first
str_less(a, b) ==
    LET n    == IF Len(a) < Len(b) THEN Len(a) ELSE Len(b)
        diff == {i \in 1 .. n : Char(a, i) # Char(b, i)}
    IN  IF diff = {} THEN Len(a) < Len(b)
        ELSE LET k == CHOOSE i \in diff : \A j \in diff : i <= j
             IN  Code(Char(a, k)) < Code(Char(b, k))

\* q in hay
str_contains(hay, q) ==
    \E i \in 1 .. (Len(hay) - Len(q) + 1) : SubSeq(hay, i, i + Len(q) - 1) = q

RECURSIVE str_strip(_)
str_strip(str) ==
    IF str = "" THEN ""
    ELSE IF Char(str, 1) = " " THEN str_strip(Tail(str))
    ELSE IF Char(str, Len(str)) = " " THEN str_strip(SubSeq(str, 1, Len(str) - 1))
    ELSE str

RECURSIVE nat_str(_)
nat_str(n) ==
    IF n < 10 THEN Char(Alphabet, Code("0") + n)
    ELSE nat_str(n \div 10) \o Char(Alphabet, Code("0") + (n % 10))

\* str(n)
int_str(n) == IF n < 0 THEN "-" \o nat_str(0 - n) ELSE nat_str(n)

RECURSIVE zero_pad(_, _)
\* f"{n:0wd}": zeros between the sign and the digits up to width w
zero_pad(n, w) ==
    IF n < 0 THEN "-" \o zero_pad(0 - n, w - 1)
    ELSE IF Len(nat_str(n)) >= w THEN nat_str(n)
    ELSE "0" \o zero_pad(n, w - 1)

RECURSIVE digits_int(_, _)
\* int() of a run of digits
digits_int(str, acc) ==
    IF str = "" THEN acc
    ELSE digits_int(Tail(str), acc * 10 + (Code(Char(str, 1)) - Code("0")))

-----------------------------------------------------------------------------
(* The timeline (app.py 356-360, 382-386, 861-905) *)

MONTHS ==
    <<"Hammer, Deepwinter", "Alturiak, The Claw of Winter", "Ches, The Claw of the Sunsets",
      "Tarsakh, The Claw of the Storms", "Mirtul, The Melting",
      "Kythorn, The Time of Flowers", "Flamerule, Summertide", "Eleasis, Highsun",
      "Eleint, The Fading", "Marpenoth, Leaffall", "Uktar, The Rotting",
      "Nightal, The Drawing Down">>

month_name(i) == IF 1 <= i /\ i <= 12 THEN MONTHS[i] ELSE MONTHS[1]

\* month_name(i).split(",")[0].strip()
month_short(i) ==
    LET name  == month_name(i)
        comma == CHOOSE k \in 1 .. (Len(name) + 1) :
                    /\ k = Len(name) + 1 \/ Char(name, k) = ","
                    /\ \A j \in 1 .. (k - 1) : Char(name, j) # ","
    IN  str_strip(SubSeq(name, 1, comma - 1))

\* the value _priority_from_title gives a title without a tag
NoPriority == 10000000

\* re.search(r'#\s*(\d+)\b', title) from position i: the digits of the match
\* that starts at the "#" of position i, "" when none starts there
tag_at(title, i) ==
    IF Char(title, i) # "#" THEN ""
    ELSE LET n     == Len(title)
             first == CHOOSE k \in (i + 1) .. (n + 1) :
                         /\ k = n + 1 \/ Char(title, k) # " "
                         /\ \A j \in (i + 1) .. (k - 1) : Char(title, j) = " "
             last  == CHOOSE k \in (first - 1) .. n :
                         /\ k = n \/ ~IsDigit(Char(title, k + 1))
                         /\ \A j \in first .. k : IsDigit(Char(title, j))
         IN  IF last < first THEN ""
             ELSE IF last < n /\ IsWord(Char(title, last + 1)) THEN ""
             ELSE SubSeq(title, first, last)

_priority_from_title(title) ==
    LET starts == {i \in 1 .. Len(title) : tag_at(title, i) # ""}
    IN  IF starts = {} THEN NoPriority
        ELSE digits_int(tag_at(title, CHOOSE k \in starts : \A j \in starts : k <= j), 0)

\* an event as the events store holds it after reload_events: id, title, notes
\* str, the date int; real_world_date "" when there is none
TimelineRow(id, y, m, d, title, notes, rwd) ==
    [id |-> id, year |-> y, month |-> m, day |-> d, title |-> title, notes |-> notes,
     real_world_date |-> rwd]

\* lines 868-873: the key of sorted()
sort_key(r) ==
    [ordinal  |-> harptos_ordinal(r.year, r.month, r.day),
     priority |-> _priority_from_title(r.title),
     title    |-> str_lower(r.title),
     id       |-> r.id]

\* the key compared without its last component
key_less_no_id(a, b) ==
    \/ a.ordinal < b.ordinal
    \/ a.ordinal = b.ordinal /\ a.priority < b.priority
    \/ a.ordinal = b.ordinal /\ a.priority = b.priority /\ str_less(a.title, b.title)

\* the key compared with the greater id first
key_less_id_desc(a, b) ==
    \/ a.ordinal < b.ordinal
    \/ a.ordinal = b.ordinal /\ a.priority < b.priority
    \/ a.ordinal = b.ordinal /\ a.priority = b.priority /\ str_less(a.title, b.title)
    \/ a.ordinal = b.ordinal /\ a.priority = b.priority /\ a.title = b.title
           /\ str_less(b.id, a.id)

\* a < b of two key tuples: by the first component that differs
key_less(a, b) ==
    \/ a.ordinal < b.ordinal
    \/ a.ordinal = b.ordinal /\ a.priority < b.priority
    \/ a.ordinal = b.ordinal /\ a.priority = b.priority /\ str_less(a.title, b.title)
    \/ a.ordinal = b.ordinal /\ a.priority = b.priority /\ a.title = b.title
           /\ str_less(a.id, b.id)

RECURSIVE insert_sorted(_, _)
\* x put before the first row of greater key: rows of equal key keep their order
insert_sorted(lst, x) ==
    IF lst = <<>> THEN <<x>>
    ELSE IF key_less(sort_key(x), sort_key(Head(lst))) THEN <<x>> \o lst
    ELSE <<Head(lst)>> \o insert_sorted(Tail(lst), x)

RECURSIVE sorted_rows(_)
\* sorted(rows, key=...): ascending and stable
sorted_rows(rows) ==
    IF rows = <<>> THEN <<>>
    ELSE insert_sorted(sorted_rows(SubSeq(rows, 1, Len(rows) - 1)), rows[Len(rows)])

\* lines 875-882: query = str(search_val() or "").strip().casefold()
search_query(search) == str_lower(str_strip(search))

\* the haystack as it is joined, before casefold()
haystack_cased(row) ==
    LET y == row.year
        m == row.month
        d == row.day
    IN  int_str(y) \o " " \o int_str(m) \o " " \o int_str(d) \o " "
          \o zero_pad(y, 4) \o "-" \o zero_pad(m, 2) \o "-" \o zero_pad(d, 2) \o " "
          \o month_short(m) \o " " \o int_str(d) \o " " \o int_str(y) \o " "
          \o month_name(m) \o " " \o int_str(d) \o " " \o int_str(y) \o " "
          \o row.title \o " " \o row.notes \o " " \o row.real_world_date

\* lines 890-903: hay
haystack(row) ==
    LET y == row.year
        m == row.month
        d == row.day
    IN  str_lower(
          int_str(y) \o " " \o int_str(m) \o " " \o int_str(d) \o " "
            \o zero_pad(y, 4) \o "-" \o zero_pad(m, 2) \o "-" \o zero_pad(d, 2) \o " "
            \o month_short(m) \o " " \o int_str(d) \o " " \o int_str(y) \o " "
            \o month_name(m) \o " " \o int_str(d) \o " " \o int_str(y) \o " "
            \o row.title \o " " \o row.notes \o " " \o row.real_world_date)

\* _matches(row)
matches(row, query) == IF query = "" THEN TRUE ELSE str_contains(haystack(row), query)

\* rows_filtered = [r for r in rows_sorted if _matches(r)]
rows_filtered(rows_sorted, query) ==
    LET Match(r) == matches(r, query)
    IN  SelectSeq(rows_sorted, Match)

-----------------------------------------------------------------------------
(* JSON values held by the persistence collaborator (untrusted) *)

JInt(n)   == [t |-> "int", v |-> n]
\* a numeric string, "12"
JStr(n)   == [t |-> "numstr", v |-> n]
\* a float n + 0.5
JFloat(n) == [t |-> "float", v |-> n]
\* None, or a string that is no number
JBad      == [t |-> "bad", v |-> 0]
\* the key is not in the mapping
JMissing  == [t |-> "missing", v |-> 0]

\* int(x): [ok, v]; ok = FALSE stands for the ValueError / TypeError
PyInt(x) ==
    IF x.t \in {"int", "numstr", "float"}
    THEN [ok |-> TRUE, v |-> x.v]
    ELSE [ok |-> FALSE, v |-> 0]

\* the value of a mapping's key as JSON
JDict(y, m, d) == [kind |-> "dict", year |-> y, month |-> m, day |-> d]
\* no row for the key
JAbsent        == [kind |-> "absent", year |-> JMissing, month |-> JMissing, day |-> JMissing]
\* a value that is no mapping (a string, a list, a number)
JOther         == [kind |-> "other", year |-> JMissing, month |-> JMissing, day |-> JMissing]

\* the JSON written for a HarptosDate
StoredDate(h) == JDict(JInt(h.year), JInt(h.month), JInt(h.day))

\* today.isoformat() and the other values the key "last_checked" may hold
IsoDate(n)  == [kind |-> "iso", v |-> n]
LastAbsent  == [kind |-> "absent", v |-> 0]
\* a string date.fromisoformat rejects
LastBadStr  == [kind |-> "badstr", v |-> 0]
\* a value that is no string
LastNonStr  == [kind |-> "nonstr", v |-> 0]

RawYearVals  == {JInt(BaseYear), JMissing}
RawMonthVals == {JInt(1), JInt(12), JInt(13), JStr(11), JBad}
RawDayVals   == {JInt(30), JInt(31), JFloat(29), JMissing}
RawDicts     == {JDict(y, m, d) : y \in RawYearVals, m \in RawMonthVals, d \in RawDayVals}
RawCurrent   == RawDicts \cup {JAbsent, JOther}
RawLast      == {IsoDate(n) : n \in 0 .. (MaxToday + 1)}
                    \cup {LastAbsent, LastBadStr, LastNonStr}

-----------------------------------------------------------------------------
(* The persistence collaborator: state key/value (supa.py 129-154) *)

\* get_state_value(key, default): the stored value, the default when no row
get_state_value(stored, default) ==
    IF stored.kind = "absent" THEN default ELSE stored

\* set_state(key, value): the table after the call; ok = FALSE when the upsert failed
set_state(stored, value, ok) == IF ok THEN value ELSE stored

-----------------------------------------------------------------------------
(* sync_global_current_date (app.py 794-827) *)

\* the sync effects of a session: _init and _auto_tick
NumSyncEffects == 2
Runners == 1 .. NumSyncEffects

\* the locals of a run: st, h, today, raw_last; `seen` keeps the stored value of
\* "current_date" that get_state_value found (JAbsent when it gave the default)
IdleRun == [pc |-> "idle", seen |-> JAbsent, st |-> JAbsent, h |-> NoneDate,
            today |-> 0, raw_last |-> LastAbsent]

\* lines 806-812 without the try/except: a bad field raises
local_start_uncaught(st) ==
    IF st.kind = "dict"
    THEN LET y == PyInt(st.year)
             m == PyInt(st.month)
             d == PyInt(st.day)
         IN  IF st.year.t = "missing" \/ st.month.t = "missing" \/ st.day.t = "missing"
                    \/ ~y.ok \/ ~m.ok \/ ~d.ok
             THEN [raised |-> TRUE, h |-> NoneDate]
             ELSE [raised |-> FALSE, h |-> sanitize_harptos_date(y.v, m.v, d.v)]
    ELSE [raised |-> FALSE, h |-> DEFAULT_CURRENT]

\* lines 806-812: h from the value of "current_date"; [raised, h]
local_start(st) ==
    IF st.kind = "dict"
    THEN LET y == PyInt(st.year)
             m == PyInt(st.month)
             d == PyInt(st.day)
         IN  IF st.year.t = "missing" \/ st.month.t = "missing" \/ st.day.t = "missing"
                    \/ ~y.ok \/ ~m.ok \/ ~d.ok
             THEN [raised |-> FALSE, h |-> DEFAULT_CURRENT]
             ELSE [raised |-> FALSE, h |-> sanitize_harptos_date(y.v, m.v, d.v)]
    ELSE [raised |-> FALSE, h |-> DEFAULT_CURRENT]

\* lines 797-801: h from the dict db.sync_current_date returned; [raised, h]
remote_date(synced) ==
    LET fld(x, dflt) == IF x.t = "missing" THEN [ok |-> TRUE, v |-> dflt] ELSE PyInt(x)
        y == fld(synced.year, DEFAULT_CURRENT.year)
        m == fld(synced.month, DEFAULT_CURRENT.month)
        d == fld(synced.day, DEFAULT_CURRENT.day)
    IN  IF y.ok /\ m.ok /\ d.ok
        THEN [raised |-> FALSE, h |-> sanitize_harptos_date(y.v, m.v, d.v)]
        ELSE [raised |-> TRUE, h |-> NoneDate]

\* a run always counts at least one day
days_elapsed_at_least_one(raw_last, tday) ==
    LET last == IF raw_last.kind = "iso" THEN raw_last.v ELSE tday
    IN  Max(1, tday - last)

\* lines 816-821: last = fromisoformat(raw_last) if it is an ISO string, else
\* today; days_elapsed = max(0, (today - last).days)
days_elapsed(raw_last, tday) ==
    LET last == IF raw_last.kind = "iso" THEN raw_last.v ELSE tday
    IN  Max(0, tday - last)

\* the loop body runs once whenever any day has elapsed
advance_loop_once(h, n) == IF n <= 0 THEN h ELSE advance_one(h)

RECURSIVE advance_loop(_, _)
\* lines 822-823: for _ in range(days_elapsed): h = advance_one(h)
advance_loop(h, n) == IF n <= 0 THEN h ELSE advance_loop(advance_one(h), n - 1)

\* the reactive lock: effects of one process run one at a time
OthersIdle(r) == \A q \in Runners \ {r} : run[q].pc = "idle"
AllIdle       == \A q \in Runners : run[q].pc = "idle"
Alive         == crashed = ""

\* line 795, synced is a dict: lines 797-803
SyncRemote(r, serial) ==
    /\ Alive
    /\ run[r].pc = "idle"
    /\ serial => OthersIdle(r)
    /\ \E synced \in RawDicts :
          LET res == remote_date(synced)
          IN  IF res.raised
              THEN /\ crashed' = "remote"
                   /\ UNCHANGED current
              ELSE /\ current' = res.h
                   /\ UNCHANGED crashed
    /\ UNCHANGED <<db_cur, db_last, today, run, cur0, last0,
                 dateVars, tlVars, parseVars, evVars>>

\* line 795, synced is no dict: the local path is entered
SyncCall(r, serial) ==
    /\ Alive
    /\ run[r].pc = "idle"
    /\ serial => OthersIdle(r)
    /\ run' = [run EXCEPT ![r] = [IdleRun EXCEPT !.pc = "getcur"]]
    /\ UNCHANGED <<current, db_cur, db_last, today, crashed, cur0, last0,
                 dateVars, tlVars, parseVars, evVars>>

\* lines 805-814: st read, h computed, today taken
SyncGetCur(r, serial) ==
    /\ Alive
    /\ run[r].pc = "getcur"
    /\ serial => OthersIdle(r)
    /\ LET st  == get_state_value(db_cur, StoredDate(DEFAULT_CURRENT))
           res == local_start(st)
       IN  IF res.raised
           THEN /\ crashed' = "local"
                /\ run' = [run EXCEPT ![r] = IdleRun]
           ELSE /\ run' = [run EXCEPT ![r] = [pc |-> "getlast", seen |-> db_cur, st |-> st,
                                              h |-> res.h, today |-> today,
                                              raw_last |-> LastAbsent]]
                /\ UNCHANGED crashed
    /\ UNCHANGED <<current, db_cur, db_last, today, cur0, last0,
                 dateVars, tlVars, parseVars, evVars>>

\* lines 815-825: raw_last read, the elapsed days applied, current set
SyncGetLast(r, serial) ==
    /\ Alive
    /\ run[r].pc = "getlast"
    /\ serial => OthersIdle(r)
    /\ LET raw_last == get_state_value(db_last, IsoDate(run[r].today))
           h2       == advance_loop(run[r].h, days_elapsed(raw_last, run[r].today))
       IN  /\ run' = [run EXCEPT ![r] = [@ EXCEPT !.pc = "setcur", !.h = h2,
                                                  !.raw_last = raw_last]]
           /\ current' = h2
    /\ UNCHANGED <<db_cur, db_last, today, crashed, cur0, last0,
                 dateVars, tlVars, parseVars, evVars>>

\* line 826: await db.set_state("current_date", h)
SyncSetCur(r, serial, outcomes) ==
    /\ Alive
    /\ run[r].pc = "setcur"
    /\ serial => OthersIdle(r)
    /\ \E ok \in outcomes : db_cur' = set_state(db_cur, StoredDate(run[r].h), ok)
    /\ run' = [run EXCEPT ![r].pc = "setlast"]
    /\ UNCHANGED <<current, db_last, today, crashed, cur0, last0,
                 dateVars, tlVars, parseVars, evVars>>

\* line 827: await db.set_state("last_checked", today.isoformat())
SyncSetLast(r, serial, outcomes) ==
    /\ Alive
    /\ run[r].pc = "setlast"
    /\ serial => OthersIdle(r)
    /\ \E ok \in outcomes : db_last' = set_state(db_last, IsoDate(run[r].today), ok)
    /\ run' = [run EXCEPT ![r] = IdleRun]
    /\ UNCHANGED <<current, db_cur, today, crashed, cur0, last0,
                 dateVars, tlVars, parseVars, evVars>>

-----------------------------------------------------------------------------
(* Standard controls (app.py 1006-1040) *)

\* the month select gives an index into MONTHS, 0 for a label MONTHS lacks;
\* the numeric inputs give an integer, 0 also standing for an empty input
ApplyMonths == {0, 2, 12}
ApplyDays   == {0, 30, 31}
ApplyYears  == {0, BaseYear + 1}
ApplyInputs == ApplyYears \X ApplyMonths \X ApplyDays

\* _apply_current
ApplyCurrent(serial, inputs) ==
    /\ Alive
    /\ serial => AllIdle
    /\ \E yi \in ApplyYears, mi \in ApplyMonths, di \in ApplyDays :
          /\ <<yi, mi, di>> \in inputs
          /\
             LET m == IF mi \in 1 .. NumMonths THEN mi ELSE 1
                 d == IF di = 0 THEN 1 ELSE di
                 y == IF yi = 0 THEN BaseYear ELSE yi
             IN  current' = sanitize_harptos_date(y, m, d)
    /\ UNCHANGED <<db_cur, db_last, today, run, crashed, cur0, last0,
                 dateVars, tlVars, parseVars, evVars>>

\* _save_current
SaveCurrent(serial, outcomes) ==
    /\ Alive
    /\ serial => AllIdle
    /\ current # NoneDate
    /\ \E ok1 \in outcomes, ok2 \in outcomes :
          /\ db_cur' = set_state(db_cur, StoredDate(current), ok1)
          /\ db_last' = IF ok1 THEN set_state(db_last, IsoDate(today), ok2) ELSE db_last
    /\ UNCHANGED <<current, today, run, crashed, cur0, last0,
                 dateVars, tlVars, parseVars, evVars>>

\* _jump_to_saved
JumpToSaved(serial) ==
    /\ Alive
    /\ serial => AllIdle
    /\ LET st  == get_state_value(db_cur, JOther)
           res == local_start_uncaught(st)
       IN  IF st.kind = "dict" /\ ~res.raised
           THEN current' = res.h
           ELSE UNCHANGED current
    /\ UNCHANGED <<db_cur, db_last, today, run, crashed, cur0, last0,
                 dateVars, tlVars, parseVars, evVars>>

\* midnight passes
TickDay ==
    /\ today < MaxToday
    /\ today' = today + 1
    /\ UNCHANGED <<current, db_cur, db_last, run, crashed, cur0, last0,
                 dateVars, tlVars, parseVars, evVars>>

-----------------------------------------------------------------------------
(* Session notes (app.py 407-561) *)

\* A line of the text, as the regular expressions of the parser read it: k is
\* "[event]" or "[/event]" for the markers, "title" or "notes" for those keys,
\* the normalized key of any other `key: value` line ("year", "month", "day",
\* "date" for real_world_date / real_date / date, "other" for any other key),
\* "text" for a line that is no `key: value`; val is the stripped value.
Line(k, val) == [k |-> k, val |-> val]

\* values: JInt(n) digits (with a sign when n < 0), Txt(n) other text,
\* EmptyTxt nothing, MonthName(i) the full or short name of month i,
\* IsoVal(n) an ISO calendar date
MonthName(i) == [t |-> "name", v |-> i]
IsoVal(n)    == [t |-> "iso", v |-> n]
Untitled     == [t |-> "untitled", v |-> 0]
NoIso        == [t |-> "none", v |-> 0]

\* parse_month_value: [ok, v]; ok = FALSE stands for None
parse_month_value(val) ==
    IF val.t = "int" /\ val.v >= 0
    THEN IF 1 <= val.v /\ val.v <= 12 THEN [ok |-> TRUE, v |-> val.v]
                                      ELSE [ok |-> FALSE, v |-> 0]
    ELSE IF val.t = "name" THEN [ok |-> TRUE, v |-> val.v]
    ELSE [ok |-> FALSE, v |-> 0]

\* int(val) of a stripped `key: value` value: [ok, v]
parse_int(val) == IF val.t = "int" THEN [ok |-> TRUE, v |-> val.v] ELSE [ok |-> FALSE, v |-> 0]

RECURSIVE scan_blocks_capture_tail(_, _, _, _, _)
\* the scanner also captures the block left open at the end of the text
scan_blocks_capture_tail(text, i, blocks, cur_lines, in_block) ==
    IF i > Len(text)
    THEN IF in_block /\ cur_lines # <<>> THEN Append(blocks, cur_lines) ELSE blocks
    ELSE IF text[i].k = "[event]"
    THEN scan_blocks_capture_tail(text, i + 1,
                     IF in_block /\ cur_lines # <<>> THEN Append(blocks, cur_lines) ELSE blocks,
                     <<>>, TRUE)
    ELSE IF text[i].k = "[/event]"
    THEN scan_blocks_capture_tail(text, i + 1,
                     IF in_block THEN Append(blocks, cur_lines) ELSE blocks,
                     <<>>, FALSE)
    ELSE scan_blocks_capture_tail(text, i + 1, blocks,
                     IF in_block THEN Append(cur_lines, text[i]) ELSE cur_lines, in_block)

RECURSIVE scan_blocks_closed_only(_, _, _, _, _)
\* the scanner drops a block left open when the next opening marker arrives
scan_blocks_closed_only(text, i, blocks, cur_lines, in_block) ==
    IF i > Len(text) THEN blocks
    ELSE IF text[i].k = "[event]"
    THEN scan_blocks_closed_only(text, i + 1, blocks, <<>>, TRUE)
    ELSE IF text[i].k = "[/event]"
    THEN scan_blocks_closed_only(text, i + 1,
                     IF in_block THEN Append(blocks, cur_lines) ELSE blocks,
                     <<>>, FALSE)
    ELSE scan_blocks_closed_only(text, i + 1, blocks,
                     IF in_block THEN Append(cur_lines, text[i]) ELSE cur_lines, in_block)

RECURSIVE scan_blocks(_, _, _, _, _)
\* lines 424-441: the blocks of the text, each the list of its lines
scan_blocks(text, i, blocks, cur_lines, in_block) ==
    IF i > Len(text) THEN blocks
    ELSE IF text[i].k = "[event]"
    THEN scan_blocks(text, i + 1,
                     IF in_block /\ cur_lines # <<>> THEN Append(blocks, cur_lines) ELSE blocks,
                     <<>>, TRUE)
    ELSE IF text[i].k = "[/event]"
    THEN scan_blocks(text, i + 1,
                     IF in_block THEN Append(blocks, cur_lines) ELSE blocks,
                     <<>>, FALSE)
    ELSE scan_blocks(text, i + 1, blocks,
                     IF in_block THEN Append(cur_lines, text[i]) ELSE cur_lines, in_block)

IsBlank(ln) == ln.k = "text" /\ ln.val.t = "empty"

RECURSIVE strip_lines(_)
\* "\n".join(notes_lines).strip(): no blank line at either end
strip_lines(ls) ==
    IF ls = <<>> THEN ls
    ELSE IF IsBlank(Head(ls)) THEN strip_lines(Tail(ls))
    ELSE IF IsBlank(ls[Len(ls)]) THEN strip_lines(SubSeq(ls, 1, Len(ls) - 1))
    ELSE ls

NoItem == [some |-> FALSE, title |-> Untitled, notes_lines |-> <<>>, real_world_date |-> NoIso]
NewItem(title, rwd) ==
    [some |-> TRUE, title |-> title, notes_lines |-> <<>>, real_world_date |-> rwd]

\* _finish_item: the items with the current item appended
finish_item(items, cur_item) ==
    IF ~cur_item.some THEN items
    ELSE Append(items,
                [title |-> IF cur_item.title.t = "empty" THEN Untitled ELSE cur_item.title,
                 notes |-> strip_lines(cur_item.notes_lines),
                 real_world_date |-> cur_item.real_world_date])

\* the locals of the loop over the lines of block idx
BlockStart ==
    [base_year |-> DEFAULT_CURRENT.year, base_month |-> DEFAULT_CURRENT.month,
     base_day |-> DEFAULT_CURRENT.day, base_real_world_date |-> NoIso,
     has_fatal_error |-> FALSE, items |-> <<>>, cur_item |-> NoItem,
     reading_notes |-> FALSE, errors |-> <<>>]

ParseError(idx, what) == [block |-> idx, what |-> what]

\* a new item inherits the real-world date of the item before it
block_line_inherit_item(st, ln, idx) ==
    IF ln.k = "title"
    THEN [st EXCEPT !.items = finish_item(st.items, st.cur_item),
                    !.cur_item = NewItem(ln.val, IF st.cur_item.some
                                                 THEN st.cur_item.real_world_date
                                                 ELSE st.base_real_world_date),
                    !.reading_notes = FALSE]
    ELSE IF ln.k = "notes"
    THEN LET item == IF st.cur_item.some THEN st.cur_item
                     ELSE NewItem(Untitled, st.base_real_world_date)
         IN  [st EXCEPT !.cur_item =
                            IF ln.val.t = "empty" THEN item
                            ELSE [item EXCEPT !.notes_lines = Append(@, Line("text", ln.val))],
                        !.reading_notes = TRUE]
    ELSE IF st.reading_notes
    THEN LET item == IF st.cur_item.some THEN st.cur_item
                     ELSE NewItem(Untitled, st.base_real_world_date)
         IN  [st EXCEPT !.cur_item = [item EXCEPT !.notes_lines = Append(@, ln)]]
    ELSE IF ln.k = "year"
    THEN IF parse_int(ln.val).ok
         THEN [st EXCEPT !.base_year = parse_int(ln.val).v]
         ELSE [st EXCEPT !.errors = Append(@, ParseError(idx, "year")),
                         !.has_fatal_error = TRUE]
    ELSE IF ln.k = "month"
    THEN IF parse_month_value(ln.val).ok
         THEN [st EXCEPT !.base_month = parse_month_value(ln.val).v]
         ELSE [st EXCEPT !.errors = Append(@, ParseError(idx, "month")),
                         !.has_fatal_error = TRUE]
    ELSE IF ln.k = "day"
    THEN IF parse_int(ln.val).ok
         THEN [st EXCEPT !.base_day = parse_int(ln.val).v]
         ELSE [st EXCEPT !.errors = Append(@, ParseError(idx, "day")),
                         !.has_fatal_error = TRUE]
    ELSE IF ln.k = "date"
    THEN IF ln.val.t = "empty" THEN st
         ELSE IF ln.val.t = "iso"
         THEN IF st.cur_item.some
              THEN [st EXCEPT !.cur_item.real_world_date = ln.val]
              ELSE [st EXCEPT !.base_real_world_date = ln.val]
         ELSE [st EXCEPT !.errors = Append(@, ParseError(idx, "date"))]
    ELSE st

\* lines 474-539: one line of a block
block_line(st, ln, idx) ==
    IF ln.k = "title"
    THEN [st EXCEPT !.items = finish_item(st.items, st.cur_item),
                    !.cur_item = NewItem(ln.val, st.base_real_world_date),
                    !.reading_notes = FALSE]
    ELSE IF ln.k = "notes"
    THEN LET item == IF st.cur_item.some THEN st.cur_item
                     ELSE NewItem(Untitled, st.base_real_world_date)
         IN  [st EXCEPT !.cur_item =
                            IF ln.val.t = "empty" THEN item
                            ELSE [item EXCEPT !.notes_lines = Append(@, Line("text", ln.val))],
                        !.reading_notes = TRUE]
    ELSE IF st.reading_notes
    THEN LET item == IF st.cur_item.some THEN st.cur_item
                     ELSE NewItem(Untitled, st.base_real_world_date)
         IN  [st EXCEPT !.cur_item = [item EXCEPT !.notes_lines = Append(@, ln)]]
    ELSE IF ln.k = "year"
    THEN IF parse_int(ln.val).ok
         THEN [st EXCEPT !.base_year = parse_int(ln.val).v]
         ELSE [st EXCEPT !.errors = Append(@, ParseError(idx, "year")),
                         !.has_fatal_error = TRUE]
    ELSE IF ln.k = "month"
    THEN IF parse_month_value(ln.val).ok
         THEN [st EXCEPT !.base_month = parse_month_value(ln.val).v]
         ELSE [st EXCEPT !.errors = Append(@, ParseError(idx, "month")),
                         !.has_fatal_error = TRUE]
    ELSE IF ln.k = "day"
    THEN IF parse_int(ln.val).ok
         THEN [st EXCEPT !.base_day = parse_int(ln.val).v]
         ELSE [st EXCEPT !.errors = Append(@, ParseError(idx, "day")),
                         !.has_fatal_error = TRUE]
    ELSE IF ln.k = "date"
    THEN IF ln.val.t = "empty" THEN st
         ELSE IF ln.val.t = "iso"
         THEN IF st.cur_item.some
              THEN [st EXCEPT !.cur_item.real_world_date = ln.val]
              ELSE [st EXCEPT !.base_real_world_date = ln.val]
         ELSE [st EXCEPT !.errors = Append(@, ParseError(idx, "date"))]
    ELSE st

RECURSIVE block_lines(_, _, _, _)
block_lines(st, block, i, idx) ==
    IF i > Len(block) THEN st
    ELSE block_lines(block_line(st, block[i], idx), block, i + 1, idx)

\* lines 449-559: the drafts and the errors of block idx
block_drafts(block, idx) ==
    LET st    == block_lines(BlockStart, block, 1, idx)
        items == LET done == finish_item(st.items, st.cur_item)
                 IN  IF done = <<>>
                     THEN <<[title |-> Untitled, notes |-> <<>>,
                             real_world_date |-> st.base_real_world_date]>>
                     ELSE done
        h     == sanitize_harptos_date(st.base_year, st.base_month, st.base_day)
    IN  [errors |-> st.errors,
         records |-> IF st.has_fatal_error THEN <<>>
                     ELSE [i \in 1 .. Len(items) |->
                             [year |-> h.year, month |-> h.month, day |-> h.day,
                              title |-> items[i].title, notes |-> items[i].notes,
                              real_world_date |-> items[i].real_world_date]]]

RECURSIVE parse_blocks(_, _, _)
parse_blocks(blocks, idx, acc) ==
    IF idx > Len(blocks) THEN acc
    ELSE LET b == block_drafts(blocks[idx], idx)
         IN  parse_blocks(blocks, idx + 1,
                          [records |-> acc.records \o b.records,
                           errors |-> acc.errors \o b.errors])

\* parse_session_notes_text: [records, errors]
parse_session_notes_text(text) ==
    LET blocks == scan_blocks(text, 1, <<>>, <<>>, FALSE)
    IN  IF blocks = <<>>
        THEN [records |-> <<>>, errors |-> <<ParseError(0, "no blocks")>>]
        ELSE parse_blocks(blocks, 1, [records |-> <<>>, errors |-> <<>>])

-----------------------------------------------------------------------------
(* The persistence collaborator: events *)

\* load_events (supa.py 157-172): every row of the table
load_events(table) == table

\* upsert_event(rec): the row with rec's id replaced, or rec appended
upsert_event(table, rec) ==
    IF \E i \in 1 .. Len(table) : table[i].id = rec.id
    THEN [i \in 1 .. Len(table) |-> IF table[i].id = rec.id THEN rec ELSE table[i]]
    ELSE Append(table, rec)

\* delete_event(eid): the table without the rows of that id
delete_event(table, eid) ==
    LET Keep(r) == r.id # eid
    IN  SelectSeq(table, Keep)

\* the row upsert_event stores for a record with integer date fields
StoredRow(rec) == RawRow(rec.id, JInt(rec.year), JInt(rec.month), JInt(rec.day), rec.title)

-----------------------------------------------------------------------------
(* reload_events (app.py 773-792) *)

\* int(r.get(field, default)): [ok, v]
row_int(x, default) == IF x.t = "missing" THEN [ok |-> TRUE, v |-> default] ELSE PyInt(x)

\* the try block raises for this row: the row is skipped
row_raises(r) ==
    \/ ~row_int(r.year, DEFAULT_CURRENT.year).ok
    \/ ~row_int(r.month, DEFAULT_CURRENT.month).ok
    \/ ~row_int(r.day, DEFAULT_CURRENT.day).ok

\* str(r.get("title") or "")
row_title(t) == IF t.t = "txt" THEN t ELSE EmptyTxt

\* the date fields converted by int() and stored as they are
normalize_row_unclamped(r) ==
    EventRow(r.id, row_int(r.year, DEFAULT_CURRENT.year).v,
             row_int(r.month, DEFAULT_CURRENT.month).v,
             row_int(r.day, DEFAULT_CURRENT.day).v, row_title(r.title))

\* lines 778-788: the row with its date sanitized
normalize_row(r) ==
    LET hd == sanitize_harptos_date(row_int(r.year, DEFAULT_CURRENT.year).v,
                                    row_int(r.month, DEFAULT_CURRENT.month).v,
                                    row_int(r.day, DEFAULT_CURRENT.day).v)
    IN  EventRow(r.id, hd.year, hd.month, hd.day, row_title(r.title))

\* lines 783-788: r["year"] = hd["year"] ... r["id"] = str(r.get("id")) assign
\* to the row object load_events returned; a row whose conversion raised is
\* left as it was (the ids of the table are strings: str() keeps them)
rows_after_reload(table) ==
    LET rows == load_events(table)
    IN  [i \in 1 .. Len(rows) |->
            [given |-> rows[i],
             now   |-> IF row_raises(rows[i]) THEN rows[i]
                       ELSE StoredRow(normalize_row(rows[i]))]]

\* the list reload_events hands to events.set
reload_events(table) ==
    LET rows == load_events(table)
        Good(r) == ~row_raises(r)
        kept == SelectSeq(rows, Good)
    IN  [i \in 1 .. Len(kept) |-> normalize_row(kept[i])]

-----------------------------------------------------------------------------
(* Modals (app.py 1197-1264) *)

\* lines 1198-1204: the events of the day
day_events_of(y, m, d, all_events) ==
    LET OnDay(r) == r.year = y /\ r.month = m /\ r.day = d
    IN  SelectSeq(all_events, OnDay)

day_details_modal(y, m, d, all_events) ==
    [kind |-> "day", date |-> HarptosDate(y, m, d),
     day_events |-> day_events_of(y, m, d, all_events), event_id |-> NoId]

event_form_modal(y, m, d, event_id) ==
    [kind |-> "form", date |-> HarptosDate(y, m, d), day_events |-> <<>>,
     event_id |-> event_id]

-----------------------------------------------------------------------------
(* Event handlers (app.py 947-1002, 1042-1046, 1115-1191) *)

\* what the browser may send with a day click: month and day numbers
ClickMonths == {0, 12}
ClickDays   == {0, 31}
\* what the event form may hold: a month index (0: a label MONTHS lacks), a day
\* and a year (0: an empty input), a title
FormMonths == {0, 2}
FormDays   == {31}
FormYears  == {0, BaseYear + 1}
FormTitles == {Txt(1)}

\* the ids in use anywhere
UsedIds ==
    {db_events[i].id : i \in 1 .. Len(db_events)}
        \cup {events[i].id : i \in 1 .. Len(events)}
        \cup {selected_event_id, modal.event_id, NoId}

\* generate_event_id(): an id nothing holds
generate_event_id == CHOOSE n \in 1 .. (Cardinality(UsedIds) + 1) : n \notin UsedIds

\* _refresh_handler
RefreshEvents ==
    /\ Alive
    /\ events' = reload_events(db_events)
    /\ loaded' = rows_after_reload(db_events)
    /\ UNCHANGED <<db_events, selected_date, selected_event_id, modal, saved_rec, drafts,
                   syncVars, dateVars, tlVars, parseVars>>

\* _on_day_click
DayClick ==
    /\ Alive
    /\ \E m \in ClickMonths, d \in ClickDays :
          LET y == IF current = NoneDate THEN DEFAULT_CURRENT.year ELSE current.year
              h == sanitize_harptos_date(y, m, d)
          IN  IF m < 1 \/ m > 12 \/ d < 1
              THEN UNCHANGED <<selected_date, selected_event_id, modal>>
              ELSE /\ selected_date' = h
                   /\ selected_event_id' = NoId
                   /\ modal' = day_details_modal(h.year, h.month, h.day, events)
    /\ UNCHANGED <<db_events, events, saved_rec, drafts, loaded,
                   syncVars, dateVars, tlVars, parseVars>>

\* _on_edit_click, from an Edit button of the day's details or with an id no
\* event has
EditClick ==
    /\ Alive
    /\ modal.kind = "day"
    /\ \E eid \in {modal.day_events[i].id : i \in 1 .. Len(modal.day_events)}
                      \cup {generate_event_id} :
          LET found == {i \in 1 .. Len(events) : events[i].id = eid}
          IN  IF found = {}
              THEN UNCHANGED <<selected_date, selected_event_id, modal>>
              ELSE LET ev == events[CHOOSE i \in found : \A j \in found : i <= j]
                       hd == sanitize_harptos_date(ev.year, ev.month, ev.day)
                   IN  /\ selected_date' = hd
                       /\ selected_event_id' = ev.id
                       /\ modal' = event_form_modal(hd.year, hd.month, hd.day, ev.id)
    /\ UNCHANGED <<db_events, events, saved_rec, drafts, loaded,
                   syncVars, dateVars, tlVars, parseVars>>

\* _close_list, or the modal dismissed (easy_close)
CloseModal ==
    /\ Alive
    /\ modal.kind # "none"
    /\ modal' = NoModal
    /\ UNCHANGED <<db_events, events, selected_date, selected_event_id, saved_rec, drafts, loaded,
                   syncVars, dateVars, tlVars, parseVars>>

\* _add_new_from_list
AddNew ==
    /\ Alive
    /\ modal.kind = "day"
    /\ LET h == IF selected_date = NoneDate THEN DEFAULT_CURRENT ELSE selected_date
       IN  modal' = event_form_modal(h.year, h.month, h.day, NoId)
    /\ selected_event_id' = NoId
    /\ UNCHANGED <<db_events, events, selected_date, saved_rec, drafts, loaded,
                   syncVars, dateVars, tlVars, parseVars>>

\* _cancel_form
CancelForm ==
    /\ Alive
    /\ modal.kind = "form"
    /\ LET h == selected_date
       IN  modal' = IF h = NoneDate THEN NoModal
                    ELSE day_details_modal(h.year, h.month, h.day, events)
    /\ UNCHANGED <<db_events, events, selected_date, selected_event_id, saved_rec, drafts, loaded,
                   syncVars, dateVars, tlVars, parseVars>>

\* _delete_event: the Delete button is in the form of an existing event
DeleteEvent ==
    /\ Alive
    /\ modal.kind = "form"
    /\ modal.event_id # NoId
    /\ IF selected_event_id = NoId
       THEN UNCHANGED <<db_events, events, modal, loaded>>
       ELSE /\ db_events' = delete_event(db_events, selected_event_id)
            /\ events' = reload_events(db_events')
            /\ loaded' = rows_after_reload(db_events')
            /\ LET h == selected_date
               IN  modal' = IF h = NoneDate THEN NoModal
                            ELSE day_details_modal(h.year, h.month, h.day, events')
    /\ UNCHANGED <<selected_date, selected_event_id, saved_rec, drafts,
                   syncVars, dateVars, tlVars, parseVars>>

\* the form is saved under a generated id, whichever event it was opened for
SaveEvent_always_new ==
    /\ Alive
    /\ modal.kind = "form"
    /\ \E mi \in FormMonths, di \in FormDays, yi \in FormYears, title \in FormTitles :
          LET m   == IF mi \in 1 .. NumMonths THEN mi ELSE 1
              d   == IF di = 0 THEN 1 ELSE di
              y   == IF yi = 0 THEN BaseYear ELSE yi
              h   == sanitize_harptos_date(y, m, d)
              eid == generate_event_id
              rec == EventRow(eid, h.year, h.month, h.day, title)
          IN  /\ Len(upsert_event(db_events, StoredRow(rec))) <= MaxEvents
              /\ saved_rec' = rec
              /\ db_events' = upsert_event(db_events, StoredRow(rec))
              /\ events' = reload_events(db_events')
              /\ loaded' = rows_after_reload(db_events')
              /\ selected_date' = HarptosDate(h.year, h.month, h.day)
              /\ selected_event_id' = NoId
              /\ modal' = day_details_modal(h.year, h.month, h.day, events')
    /\ UNCHANGED <<drafts,
                   syncVars, dateVars, tlVars, parseVars>>

\* _save_event
SaveEvent ==
    /\ Alive
    /\ modal.kind = "form"
    /\ \E mi \in FormMonths, di \in FormDays, yi \in FormYears, title \in FormTitles :
          LET m   == IF mi \in 1 .. NumMonths THEN mi ELSE 1
              d   == IF di = 0 THEN 1 ELSE di
              y   == IF yi = 0 THEN BaseYear ELSE yi
              h   == sanitize_harptos_date(y, m, d)
              eid == IF selected_event_id = NoId THEN generate_event_id
                     ELSE selected_event_id
              rec == EventRow(eid, h.year, h.month, h.day, title)
          IN  /\ Len(upsert_event(db_events, StoredRow(rec))) <= MaxEvents
              /\ saved_rec' = rec
              /\ db_events' = upsert_event(db_events, StoredRow(rec))
              /\ events' = reload_events(db_events')
              /\ loaded' = rows_after_reload(db_events')
              /\ selected_date' = HarptosDate(h.year, h.month, h.day)
              /\ selected_event_id' = NoId
              /\ modal' = day_details_modal(h.year, h.month, h.day, events')
    /\ UNCHANGED <<drafts,
                   syncVars, dateVars, tlVars, parseVars>>

\* the notes files offered for import: one block with a date and a title, the
\* date fields drawn from in-range, out-of-range and unreadable values; a text
\* without markers; a text with a second, unreadable block
NoteYears  == {JInt(BaseYear)}
NoteMonths == {JInt(12), JInt(13)}
NoteDays   == {JInt(31)}
OneBlock(y, m, d) ==
    <<Line("[event]", EmptyTxt), Line("year", y), Line("month", m), Line("day", d),
      Line("title", Txt(1)), Line("notes", Txt(2)), Line("[/event]", EmptyTxt)>>
NoteTexts ==
    {OneBlock(y, m, d) : y \in NoteYears, m \in NoteMonths, d \in NoteDays}
        \cup {<<Line("text", Txt(3))>>}
        \cup {OneBlock(JInt(BaseYear), MonthName(1), JInt(31))
                  \o <<Line("[event]", EmptyTxt), Line("day", Txt(4)),
                       Line("[/event]", EmptyTxt)>>}

RECURSIVE upsert_drafts(_, _, _)
\* lines 1085-1092: each record upserted; the table gives a record without id a
\* new one
upsert_drafts(table, recs, used) ==
    IF recs = <<>> THEN table
    ELSE LET id  == CHOOSE n \in 1 .. (Cardinality(used) + 1) : n \notin used
             rec == EventRow(id, Head(recs).year, Head(recs).month, Head(recs).day,
                             Head(recs).title)
         IN  upsert_drafts(upsert_event(table, StoredRow(rec)), Tail(recs), used \cup {id})

\* _import_notes
ImportNotes ==
    /\ Alive
    /\ \E text \in NoteTexts :
          LET res == parse_session_notes_text(text)
          IN  /\ Len(db_events) + Len(res.records) <= MaxEvents
              /\ drafts' = res
              /\ db_events' = upsert_drafts(db_events, res.records, UsedIds)
              /\ events' = IF res.records = <<>> THEN events ELSE reload_events(db_events')
              /\ loaded' = IF res.records = <<>> THEN loaded ELSE rows_after_reload(db_events')
    /\ UNCHANGED <<selected_date, selected_event_id, modal, saved_rec,
                   syncVars, dateVars, tlVars, parseVars>>

-----------------------------------------------------------------------------
(* SyncSpec: the current-date handlers of one process, store calls succeeding *)

\* the state of the current-date machinery before any handler ran
SyncQuiet ==
    /\ current = NoneDate
    /\ db_cur = JAbsent
    /\ db_last = LastAbsent
    /\ today = 0
    /\ run = [r \in Runners |-> IdleRun]
    /\ crashed = ""
    /\ cur0 = JAbsent
    /\ last0 = LastAbsent

\* no events anywhere, the calendar rendered without events, no modal
EventsQuiet ==
    /\ db_events = <<>>
    /\ events = <<>>
    /\ selected_date = NoneDate
    /\ selected_event_id = NoId
    /\ modal = NoModal
    /\ saved_rec = NoRecord
    /\ drafts = NoDrafts
    /\ loaded = <<>>
    /\ indexed = build_index(<<>>)

\* the harness of the timeline, not in use
TimelineQuiet ==
    /\ tl_stage = "off"
    /\ tl_rows = <<>>
    /\ tl_perm = <<>>
    /\ tl_sorted = <<>>
    /\ tl_perm_sorted = <<>>
    /\ tl_search = ""
    /\ tl_shown = <<>>

\* the harness of the notes parser, not in use
ParseQuiet ==
    /\ p_stage = "off"
    /\ p_text = <<>>
    /\ p_parts = <<>>
    /\ p_out = NoDrafts
    /\ p_alone = <<>>

DateQuiet ==
    /\ stage = "off"
    /\ raw = <<0, 0, 0>>
    /\ hA = NoneDate
    /\ hB = NoneDate
    /\ ordA = 0
    /\ ordB = 0
    /\ hS = NoneDate
    /\ steps = 0

SyncInit ==
    /\ current = NoneDate
    /\ db_cur \in RawCurrent
    /\ db_last \in RawLast
    /\ today = 0
    /\ run = [r \in Runners |-> IdleRun]
    /\ crashed = ""
    /\ cur0 = JAbsent
    /\ last0 = LastAbsent
    /\ DateQuiet
    /\ TimelineQuiet
    /\ ParseQuiet
    /\ EventsQuiet

\* the same, the values found at first kept as history
RunsInit ==
    /\ current = NoneDate
    /\ db_cur \in RawCurrent
    /\ db_last \in RawLast
    /\ today = 0
    /\ run = [r \in Runners |-> IdleRun]
    /\ crashed = ""
    /\ cur0 = db_cur
    /\ last0 = db_last
    /\ DateQuiet
    /\ TimelineQuiet
    /\ ParseQuiet
    /\ EventsQuiet

\* the sessions start on the day last_checked holds
RaceInit == RunsInit /\ db_last = IsoDate(0)

\* without events the index is empty: the handlers of SyncSpec leave the
\* rendered calendar as it is
NoRender == UNCHANGED viewVars

SyncNext ==
    \/ \E r \in Runners : SyncRemote(r, TRUE) /\ NoRender
    \/ \E r \in Runners : SyncCall(r, TRUE) /\ NoRender
    \/ \E r \in Runners : SyncGetCur(r, TRUE) /\ NoRender
    \/ \E r \in Runners : SyncGetLast(r, TRUE) /\ NoRender
    \/ \E r \in Runners : SyncSetCur(r, TRUE, {TRUE}) /\ NoRender
    \/ \E r \in Runners : SyncSetLast(r, TRUE, {TRUE}) /\ NoRender
    \/ ApplyCurrent(TRUE, ApplyInputs) /\ NoRender
    \/ SaveCurrent(TRUE, {TRUE}) /\ NoRender
    \/ JumpToSaved(TRUE) /\ NoRender
    \/ TickDay /\ NoRender

SyncSpec == SyncInit /\ [][SyncNext]_vars

\* sync runs on the local path, one after another, every write succeeding
RunsNext ==
    \/ \E r \in Runners : SyncCall(r, TRUE) /\ NoRender
    \/ \E r \in Runners : SyncGetCur(r, TRUE) /\ NoRender
    \/ \E r \in Runners : SyncGetLast(r, TRUE) /\ NoRender
    \/ \E r \in Runners : SyncSetCur(r, TRUE, {TRUE}) /\ NoRender
    \/ \E r \in Runners : SyncSetLast(r, TRUE, {TRUE}) /\ NoRender
    \/ TickDay /\ NoRender

RunsSpec == RunsInit /\ [][RunsNext]_vars

\* sync runs of sessions that share the state table: a run goes on at each of
\* its awaits whatever the other run is doing
RaceNext ==
    \/ \E r \in Runners : SyncCall(r, FALSE) /\ NoRender
    \/ \E r \in Runners : SyncGetCur(r, FALSE) /\ NoRender
    \/ \E r \in Runners : SyncGetLast(r, FALSE) /\ NoRender
    \/ \E r \in Runners : SyncSetCur(r, FALSE, {TRUE}) /\ NoRender
    \/ \E r \in Runners : SyncSetLast(r, FALSE, {TRUE}) /\ NoRender
    \/ TickDay /\ NoRender

RaceSpec == RaceInit /\ [][RaceNext]_vars

\* sync runs one after another, each set_state succeeding or returning False
\* how many days ahead of the date it held at first the stored date may be
\* when a run starts
MaxAhead == 3

\* the days from the date "current_date" held at first to the one it holds
DaysAhead ==
    LET OrdinalOf(c) == LET h == local_start(get_state_value(c, StoredDate(DEFAULT_CURRENT))).h
                        IN  harptos_ordinal(h.year, h.month, h.day)
    IN  OrdinalOf(db_cur) - OrdinalOf(cur0)

FailNext ==
    \/ \E r \in Runners : DaysAhead <= MaxAhead /\ SyncCall(r, TRUE) /\ NoRender
    \/ \E r \in Runners : SyncGetCur(r, TRUE) /\ NoRender
    \/ \E r \in Runners : SyncGetLast(r, TRUE) /\ NoRender
    \/ \E r \in Runners : SyncSetCur(r, TRUE, BOOLEAN) /\ NoRender
    \/ \E r \in Runners : SyncSetLast(r, TRUE, BOOLEAN) /\ NoRender
    \/ TickDay /\ NoRender

FailSpec == RunsInit /\ [][FailNext]_vars

-----------------------------------------------------------------------------
(* Spec: the event handlers of a session over the events table *)

\* rows as other writers may have left them in the events table
RawEventRows ==
    {RawRow(1, y, m, d, Txt(1)) :
        y \in {JMissing}, m \in {JInt(2), JInt(13), JBad}, d \in {JInt(31)}}
InitialTables ==
    {<<>>} \cup {<<r>> : r \in RawEventRows}
           \cup {<<r, RawRow(2, JInt(BaseYear), JInt(2), JInt(30), JBad)>> : r \in RawEventRows}

Init ==
    /\ db_events \in InitialTables
    /\ events = <<>>
    /\ selected_date = NoneDate
    /\ selected_event_id = NoId
    /\ modal = NoModal
    /\ saved_rec = NoRecord
    /\ drafts = NoDrafts
    /\ loaded = <<>>
    /\ indexed = build_index(<<>>)
    /\ SyncQuiet
    /\ DateQuiet
    /\ TimelineQuiet
    /\ ParseQuiet

Next ==
    \/ RefreshEvents /\ RenderCalendar(events')
    \/ DayClick /\ RenderCalendar(events')
    \/ EditClick /\ RenderCalendar(events')
    \/ CloseModal /\ RenderCalendar(events')
    \/ AddNew /\ RenderCalendar(events')
    \/ CancelForm /\ RenderCalendar(events')
    \/ DeleteEvent /\ RenderCalendar(events')
    \/ SaveEvent /\ RenderCalendar(events')
    \/ ImportNotes /\ RenderCalendar(events')
    \/ ApplyCurrent(TRUE, {<<BaseYear + 1, 0, 0>>}) /\ RenderCalendar(events')

Spec == Init /\ [][Next]_vars

-----------------------------------------------------------------------------
(* DateSpec: the pure functions applied to bounded inputs *)

Years     == BaseYear .. (BaseYear + YearSpan)
RawMonths == (1 - Slack) .. (NumMonths + Slack)
RawDays   == (1 - Slack) .. (DAYS_PER_MONTH + 1 + Slack)

DateInit ==
    /\ stage = "in"
    /\ raw \in Years \X RawMonths \X RawDays
    /\ hA = NoneDate
    /\ hB = NoneDate
    /\ ordA = 0
    /\ ordB = 0
    /\ hS = NoneDate
    /\ steps = 0
    /\ SyncQuiet
    /\ EventsQuiet
    /\ TimelineQuiet
    /\ ParseQuiet

\* h = sanitize_harptos_date(y, m, d)
DSanitize ==
    /\ stage = "in"
    /\ hA' = sanitize_harptos_date(raw[1], raw[2], raw[3])
    /\ stage' = "san"
    /\ UNCHANGED <<raw, hB, ordA, ordB, hS, steps, syncVars, viewVars, evVars, tlVars, parseVars>>

\* sanitize_harptos_date applied to the components of its own result
DResanitize ==
    /\ stage = "san"
    /\ hB' = sanitize_harptos_date(hA.year, hA.month, hA.day)
    /\ stage' = "re"
    /\ UNCHANGED <<raw, hA, ordA, ordB, hS, steps, syncVars, viewVars, evVars, tlVars, parseVars>>

\* h = advance_one(h) on a sanitized date
DAdvance ==
    /\ stage = "san"
    /\ hB' = advance_one(hA)
    /\ stage' = "adv"
    /\ UNCHANGED <<raw, hA, ordA, ordB, hS, steps, syncVars, viewVars, evVars, tlVars, parseVars>>

\* harptos_ordinal of a date and of its successor
DOrdinal ==
    /\ stage = "adv"
    /\ ordA' = harptos_ordinal(hA.year, hA.month, hA.day)
    /\ ordB' = harptos_ordinal(hB.year, hB.month, hB.day)
    /\ stage' = "ord"
    /\ UNCHANGED <<raw, hA, hB, hS, steps, syncVars, viewVars, evVars, tlVars, parseVars>>

\* harptos_ordinal of two sanitized dates (the sort key of two events)
DCompare ==
    /\ stage = "san"
    /\ raw = <<hA.year, hA.month, hA.day>>
    /\ \E y \in Years, m \in 1 .. NumMonths, d \in 1 .. (DAYS_PER_MONTH + 1) :
          /\ hB' = sanitize_harptos_date(y, m, d)
          /\ ordB' = harptos_ordinal(hB'.year, hB'.month, hB'.day)
    /\ ordA' = harptos_ordinal(hA.year, hA.month, hA.day)
    /\ stage' = "cmp"
    /\ UNCHANGED <<raw, hA, hS, steps, syncVars, viewVars, evVars, tlVars, parseVars>>

\* step_harptos (supa.py 41-57)
step_harptos(h, months, dpm) ==
    LET day == h.day + 1
    IN  IF day > dpm
        THEN IF h.month + 1 > Len(months)
             THEN HarptosDate(h.year + 1, 1, 1)
             ELSE HarptosDate(h.year, h.month + 1, 1)
        ELSE HarptosDate(h.year, h.month, day)

\* the longest walk of days taken from the first day of a year
MaxWalk == 366

\* step_harptos(h, MONTHS, 30) and advance_one(h) on a sanitized date
DStep ==
    /\ stage = "san"
    /\ hS' = step_harptos(hA, MONTHS, DAYS_PER_MONTH)
    /\ hB' = advance_one(hA)
    /\ steps' = 1
    /\ stage' = "step"
    /\ UNCHANGED <<raw, hA, ordA, ordB, syncVars, viewVars, evVars, tlVars, parseVars>>

\* for _ in range(n): h = advance_one(h), from the first day of a year, one
\* pass of the loop per step; step_harptos is applied alongside
DWalk ==
    /\ \/ stage = "san" /\ hA.month = 1 /\ hA.day = 1
       \/ stage = "walk" /\ steps < MaxWalk
    /\ hB' = advance_one(IF stage = "san" THEN hA ELSE hB)
    /\ hS' = step_harptos(IF stage = "san" THEN hA ELSE hS, MONTHS, DAYS_PER_MONTH)
    /\ steps' = (IF stage = "san" THEN 0 ELSE steps) + 1
    /\ ordA' = harptos_ordinal(hA.year, hA.month, hA.day)
    /\ ordB' = harptos_ordinal(hB'.year, hB'.month, hB'.day)
    /\ stage' = "walk"
    /\ UNCHANGED <<raw, hA, syncVars, viewVars, evVars, tlVars, parseVars>>

DateNext ==
    \/ DSanitize
    \/ DResanitize
    \/ DAdvance
    \/ DOrdinal
    \/ DCompare
    \/ DStep
    \/ DWalk

DateSpec == DateInit /\ [][DateNext]_vars

-----------------------------------------------------------------------------
(* TimelineSpec: build_timeline_ui applied to bounded event collections *)

\* events of the store: two whose titles differ only in case, a tagged one, one
\* tagged with a number above the default priority, one with notes and a
\* real-world date, one without title
TimelineEvents ==
    {TimelineRow("10", BaseYear, 1, 31, "Midwinter feast", "", ""),
     TimelineRow("9", BaseYear, 1, 31, "midwinter feast", "", ""),
     TimelineRow("a", BaseYear, 1, 31, "#2 Council", "", ""),
     TimelineRow("b", BaseYear, 1, 31, "#10000001 Parade", "", ""),
     TimelineRow("c", BaseYear, 4, 15, "Greengrass Prep", "bring #1 ale", "2024-05-01"),
     TimelineRow("d", BaseYear, 1, 31, "", "", "")}

\* what the search box may hold
TimelineSearches == {"", " Hammer ", "1492-01-31", "ALE"}

\* the collections of at most n events, ids unique
RECURSIVE Collections(_)
Collections(n) ==
    IF n = 0 THEN {<<>>}
    ELSE LET less == Collections(n - 1)
         IN  less \cup {Append(c, e) : c \in less, e \in TimelineEvents}

UniqueIds(rows) == \A i, j \in 1 .. Len(rows) : rows[i].id = rows[j].id => i = j

TimelineInit ==
    /\ tl_stage = "in"
    /\ tl_rows \in {c \in Collections(MaxRows) : UniqueIds(c)}
    /\ tl_perm = <<>>
    /\ tl_sorted = <<>>
    /\ tl_perm_sorted = <<>>
    /\ tl_search = ""
    /\ tl_shown = <<>>
    /\ DateQuiet
    /\ ParseQuiet
    /\ SyncQuiet
    /\ EventsQuiet

\* the store hands the same events in another order
TReorder ==
    /\ tl_stage = "in"
    /\ \E f \in Permutations(1 .. Len(tl_rows)) :
          tl_perm' = [i \in 1 .. Len(tl_rows) |-> tl_rows[f[i]]]
    /\ tl_stage' = "ordered"
    /\ UNCHANGED <<tl_rows, tl_sorted, tl_perm_sorted, tl_search, tl_shown,
                   dateVars, parseVars, syncVars, viewVars, evVars>>

\* lines 866-874: rows_sorted, of either order
TSort ==
    /\ tl_stage = "ordered"
    /\ tl_sorted' = sorted_rows(tl_rows)
    /\ tl_perm_sorted' = sorted_rows(tl_perm)
    /\ tl_stage' = "sorted"
    /\ UNCHANGED <<tl_rows, tl_perm, tl_search, tl_shown,
                   dateVars, parseVars, syncVars, viewVars, evVars>>

\* lines 875-906: the search text read and rows_filtered built
TFilter ==
    /\ tl_stage = "sorted"
    /\ \E search \in TimelineSearches :
          /\ tl_search' = search
          /\ tl_shown' = rows_filtered(tl_sorted, search_query(search))
    /\ tl_stage' = "shown"
    /\ UNCHANGED <<tl_rows, tl_perm, tl_sorted, tl_perm_sorted,
                   dateVars, parseVars, syncVars, viewVars, evVars>>

TimelineNext ==
    \/ TReorder
    \/ TSort
    \/ TFilter

TimelineSpec == TimelineInit /\ [][TimelineNext]_vars

-----------------------------------------------------------------------------
(* ParseSpec: parse_session_notes_text applied to bounded texts *)

Opener == Line("[event]", EmptyTxt)
Closer == Line("[/event]", EmptyTxt)

\* what stands between the markers of a block
NoteBodies ==
    LET Hd     == <<Line("year", JInt(BaseYear - 1)), Line("month", MonthName(2)),
                    Line("day", JInt(31))>>
        Title  == <<Line("title", Txt(1))>>
        Title2 == <<Line("title", Txt(4))>>
        Notes  == <<Line("notes", Txt(2)), Line("text", Txt(3))>>
    IN  {<<>>,
         Hd,
         Title,
         Hd \o Title \o Notes,
         <<Line("year", Txt(5))>> \o Title,
         <<Line("month", JInt(13))>> \o Title,
         <<Line("day", Txt(5))>> \o Title,
         <<Line("date", Txt(6))>> \o Title,
         Title \o <<Line("date", Txt(6))>>,
         <<Line("date", IsoVal(1))>> \o Title \o <<Line("date", IsoVal(2))>> \o Title2,
         Title \o Notes \o <<Line("year", Txt(5))>>,
         Title \o Notes \o <<Line("date", Txt(6))>> \o Title2,
         <<Line("notes", Txt(2)), Line("day", JInt(5))>>,
         Title \o <<Line("notes", Txt(2)), Line("day", JInt(5)), Line("date", IsoVal(2))>>}

\* a piece of a text: a block, a block left open, a stray closing marker, lines
\* outside any block
NoteChunks ==
    {<<Opener>> \o b \o <<Closer>> : b \in NoteBodies}
        \cup {<<Opener>> \o b : b \in NoteBodies}
        \cup {<<Closer>>, <<Line("title", Txt(7)), Line("text", Txt(3))>>}

RECURSIVE TextsOf(_)
\* the texts of at most n pieces
TextsOf(n) ==
    IF n = 0 THEN {<<>>}
    ELSE LET less == TextsOf(n - 1)
         IN  less \cup {t \o c : t \in less, c \in NoteChunks}

ParseInit ==
    /\ p_stage = "in"
    /\ p_text \in TextsOf(MaxChunks)
    /\ p_parts = <<>>
    /\ p_out = NoDrafts
    /\ p_alone = <<>>
    /\ DateQuiet
    /\ TimelineQuiet
    /\ SyncQuiet
    /\ EventsQuiet

\* records, parse_errors = parse_session_notes_text(text)
PParse ==
    /\ p_stage = "in"
    /\ p_out' = parse_session_notes_text(p_text)
    /\ p_parts' = LET blocks == scan_blocks(p_text, 1, <<>>, <<>>, FALSE)
                  IN  [i \in 1 .. Len(blocks) |-> block_drafts(blocks[i], i)]
    /\ p_stage' = "parsed"
    /\ UNCHANGED <<p_text, p_alone, dateVars, tlVars, syncVars, viewVars, evVars>>

\* each block of the text parsed as a text of its own
PAlone ==
    /\ p_stage = "parsed"
    /\ p_alone' = LET blocks == scan_blocks(p_text, 1, <<>>, <<>>, FALSE)
                  IN  [i \in 1 .. Len(blocks) |->
                          parse_session_notes_text(<<Opener>> \o blocks[i] \o <<Closer>>)]
    /\ p_stage' = "alone"
    /\ UNCHANGED <<p_text, p_parts, p_out, dateVars, tlVars, syncVars, viewVars, evVars>>

ParseNext ==
    \/ PParse
    \/ PAlone

ParseSpec == ParseInit /\ [][ParseNext]_vars

-----------------------------------------------------------------------------
(* Properties of the date functions, checked under DateSpec *)

\* month in 1..12, day in 1..30, or day 31 in a festival month
IsValidDate(h) ==
    /\ h.month \in 1 .. 12
    /\ \/ h.day \in 1 .. 30
       \/ h.day = 31 /\ h.month \in {1, 4, 7, 9, 11}

ClampTo(x, lo, hi) == IF x < lo THEN lo ELSE IF x > hi THEN hi ELSE x

\* C1: sanitize_harptos_date(y, m, d) keeps the year, clamps the month to
\* [1,12] and the day to [1, maxDay], maxDay being 31 for the clamped months
\* {1,4,7,9,11} and 30 otherwise; day 31 of a non-festival month becomes day 30
\* of the same month, and the result is always a valid HarptosDate.
Thm_C1_SanitizeClamps ==
    stage # "in" =>
        LET y      == raw[1]
            m      == raw[2]
            d      == raw[3]
            cm     == ClampTo(m, 1, 12)
            maxDay == IF cm \in {1, 4, 7, 9, 11} THEN 31 ELSE 30
        IN  /\ hA.year = y
            /\ hA.month = cm
            /\ hA.day = ClampTo(d, 1, maxDay)
            /\ IsValidDate(hA)
            /\ (d = 31 /\ m \in {2, 3, 5, 6, 8, 10, 12}) =>
                   (hA.month = m /\ hA.day = 30)

\* day 31 asked of the non-festival month 2 came back as day 30 of month 2
Wit_C1_Day31NonFestival ==
    /\ stage = "san"
    /\ raw[2] = 2
    /\ raw[3] = 31
    /\ hA = [year |-> raw[1], month |-> 2, day |-> 30]

\* C2: sanitize_harptos_date is idempotent: sanitizing the components of a
\* sanitized date returns the same (year, month, day).
Thm_C2_SanitizeIdempotent ==
    stage = "re" => hB = hA

\* an out-of-range triple was sanitized and the result sanitized again
Wit_C2_Resanitized ==
    /\ stage = "re"
    /\ raw[2] > 12
    /\ raw[3] > 31
    /\ hB = hA
    /\ <<hA.year, hA.month, hA.day>> # raw

\* C3: on a valid date advance_one gives day+1 for days 1..29, day 1 of the
\* next month after day 30 of a non-festival month (month 12 wraps to month 1
\* of the next year), day 31 after day 30 of a festival month, and day 1 of
\* the next month after day 31.
Thm_C3_AdvanceRules ==
    stage = "adv" =>
        LET y         == hA.year
            m         == hA.month
            d         == hA.day
            nextMonth == IF m = 12 THEN [year |-> y + 1, month |-> 1, day |-> 1]
                                   ELSE [year |-> y, month |-> m + 1, day |-> 1]
        IN  /\ IsValidDate(hA)
            /\ d \in 1 .. 29 => hB = [year |-> y, month |-> m, day |-> d + 1]
            /\ (d = 30 /\ m \notin {1, 4, 7, 9, 11}) => hB = nextMonth
            /\ (d = 30 /\ m \in {1, 4, 7, 9, 11}) =>
                   hB = [year |-> y, month |-> m, day |-> 31]
            /\ d = 31 => hB = nextMonth
            /\ hA = [year |-> 1492, month |-> 1, day |-> 30] =>
                   hB = [year |-> 1492, month |-> 1, day |-> 31]
            /\ hA = [year |-> 1492, month |-> 1, day |-> 31] =>
                   hB = [year |-> 1492, month |-> 2, day |-> 1]

\* (1492,1,30) was advanced to Midwinter, (1492,1,31)
Wit_C3_Midwinter ==
    /\ stage = "adv"
    /\ hA = [year |-> 1492, month |-> 1, day |-> 30]
    /\ hB = [year |-> 1492, month |-> 1, day |-> 31]

\* C4: harptos_ordinal(advance_one(x)) > harptos_ordinal(x) for every valid
\* HarptosDate x.
Thm_C4_OrdinalMonotonic ==
    stage = "ord" => (IsValidDate(hA) /\ ordB > ordA)

\* the ordinals of a festival day and of its successor were computed
Wit_C4_FestivalSuccessor ==
    /\ stage = "ord"
    /\ hA.day = 31
    /\ hB.day = 1
    /\ ordB > ordA

\* the number of festival months before month m, tabulated
FestivalCount(m) ==
    IF m <= 1 THEN 0 ELSE IF m <= 4 THEN 1 ELSE IF m <= 7 THEN 2
    ELSE IF m <= 9 THEN 3 ELSE IF m <= 11 THEN 4 ELSE 5

\* a precedes b: lexicographic on (year, month, day), so that day 31 of a month
\* comes after its day 30 and before day 1 of the next month
Precedes(a, b) ==
    \/ a.year < b.year
    \/ a.year = b.year /\ a.month < b.month
    \/ a.year = b.year /\ a.month = b.month /\ a.day < b.day

OrdinalFormula(h) ==
    h.year * 365 + (h.month - 1) * 30 + FestivalCount(h.month)
        + (IF h.day = 31 THEN 30 ELSE h.day - 1)

\* C5: harptos_ordinal(y,m,d) = y*365 + (m-1)*30 + festivals_before(m) +
\* (30 if d==31 else d-1), and on valid dates ordinal(A) < ordinal(B) iff A
\* precedes B, and ordinal(A) = ordinal(B) iff A and B are the same date.
Thm_C5_OrdinalEmbedding ==
    stage = "cmp" =>
        /\ IsValidDate(hA) /\ IsValidDate(hB)
        /\ ordA = OrdinalFormula(hA)
        /\ ordB = OrdinalFormula(hB)
        /\ (ordA < ordB) <=> Precedes(hA, hB)
        /\ (ordA = ordB) <=> (hA = hB)

\* a festival day was compared with day 1 of the next month
Wit_C5_FestivalBeforeNextMonth ==
    /\ stage = "cmp"
    /\ hA = [year |-> 1492, month |-> 4, day |-> 31]
    /\ hB = [year |-> 1492, month |-> 5, day |-> 1]
    /\ ordA < ordB

-----------------------------------------------------------------------------
(* Properties of the sync run, checked under SyncSpec *)

\* the date a stored "current_date" value stands for: its three numbers
\* clamped into the calendar, or (1492, 1, 1) when it has no such numbers
ReadableDate(c) ==
    IF /\ c.kind = "dict"
       /\ \A f \in {c.year, c.month, c.day} : f.t \in {"int", "numstr", "float"}
    THEN LET cm     == ClampTo(c.month.v, 1, 12)
             maxDay == IF cm \in {1, 4, 7, 9, 11} THEN 31 ELSE 30
         IN  [year |-> c.year.v, month |-> cm, day |-> ClampTo(c.day.v, 1, maxDay)]
    ELSE [year |-> 1492, month |-> 1, day |-> 1]

\* absent, no mapping, or a year, month or day that is missing or that int()
\* rejects
MalformedCurrent(c) ==
    \/ c.kind # "dict"
    \/ \E f \in {c.year, c.month, c.day} : f.t \in {"missing", "bad"}

\* real days from a stored last_checked to the day t, never negative
ElapsedDays(l, t) == IF l.kind = "iso" /\ l.v < t THEN t - l.v ELSE 0

RECURSIVE AdvancedBy(_, _)
\* h advanced by advance_one n times
AdvancedBy(h, n) == IF n = 0 THEN h ELSE advance_one(AdvancedBy(h, n - 1))

C6Step(r) ==
    /\ (run[r].pc = "getcur" /\ run'[r].pc = "getlast") =>
           /\ run'[r].h = ReadableDate(db_cur)
           /\ run'[r].today = today
    /\ (run[r].pc = "getlast" /\ run'[r].pc = "setcur") =>
           /\ run'[r].h = AdvancedBy(run[r].h, ElapsedDays(db_last, run[r].today))
           /\ current' = run'[r].h
           /\ (db_last.kind = "iso" /\ run[r].today < db_last.v) => run'[r].h = run[r].h
    /\ (run[r].pc = "setlast" /\ run'[r].pc = "idle") =>
           LET adv == AdvancedBy(ReadableDate(run[r].seen),
                                 ElapsedDays(run[r].raw_last, run[r].today))
           IN  /\ current' = adv
               /\ db_cur' = [kind |-> "dict", year |-> [t |-> "int", v |-> adv.year],
                             month |-> [t |-> "int", v |-> adv.month],
                             day |-> [t |-> "int", v |-> adv.day]]
               /\ db_last' = [kind |-> "iso", v |-> run[r].today]

\* C6: a sync run on the local path takes elapsed = max(0, today -
\* last_checked), sets the current date to the persisted current date advanced
\* by advance_one elapsed times, and when it ends the persisted current_date is
\* that date and the persisted last_checked is today; with today earlier than
\* last_checked the date is not changed.
Thm_C6_LocalSync == [][\A r \in Runners : C6Step(r)]_vars

\* a run read (1492,1,30) with last_checked two days back and has written
\* (1492,2,1), the day after Midwinter
Wit_C6_TwoDaysElapsed ==
    \E r \in Runners :
        /\ run[r].pc = "setlast"
        /\ run[r].seen = StoredDate([year |-> 1492, month |-> 1, day |-> 30])
        /\ run[r].raw_last = IsoDate(0)
        /\ run[r].today = 2
        /\ current = [year |-> 1492, month |-> 2, day |-> 1]
        /\ db_cur = StoredDate(current)

C7Step(r) ==
    /\ (run[r].pc = "getcur" /\ run'[r] # run[r]) =>
           /\ run'[r].pc = "getlast"
           /\ crashed' = ""
           /\ MalformedCurrent(db_cur) => run'[r].h = [year |-> 1492, month |-> 1, day |-> 1]
    /\ (run[r].pc = "getlast" /\ run'[r] # run[r]) =>
           /\ run'[r].pc = "setcur"
           /\ crashed' = ""
           /\ db_last.kind # "iso" => (run'[r].h = run[r].h /\ current' = run[r].h)
    /\ (run[r].pc = "setcur" /\ run'[r] # run[r]) =>
           /\ run'[r].pc = "setlast"
           /\ crashed' = ""
           /\ db_cur' = StoredDate(run[r].h)
    /\ (run[r].pc = "setlast" /\ run'[r] # run[r]) =>
           /\ run'[r].pc = "idle"
           /\ crashed' = ""
           /\ db_last' = IsoDate(run[r].today)
           /\ (MalformedCurrent(run[r].seen) /\ run[r].raw_last.kind # "iso") =>
                  db_cur' = StoredDate([year |-> 1492, month |-> 1, day |-> 1])

-----------------------------------------------------------------------------
(* Properties of the event records and of the day index, checked under Spec *)

\* the rows of the table whose date fields int() converts, by id
ConvertibleIds(table) ==
    LET Good(r) == PyInt(IF r.year.t = "missing" THEN JInt(0) ELSE r.year).ok
                     /\ PyInt(IF r.month.t = "missing" THEN JInt(0) ELSE r.month).ok
                     /\ PyInt(IF r.day.t = "missing" THEN JInt(0) ELSE r.day).ok
        kept == SelectSeq(table, Good)
    IN  [i \in 1 .. Len(kept) |-> kept[i].id]

\* C8: every event record held or emitted has a normalized date: each row of
\* the events store, each draft of the notes parser and the record _save_event
\* builds has a month in 1..12 and a day in 1..30, or day 31 in a month of
\* {1,4,7,9,11}; a reload keeps exactly the rows whose date fields convert to
\* integers and skips the others without raising.
Thm_C8_EventDatesNormalized ==
    [][/\ \A i \in 1 .. Len(events') : IsValidDate(events'[i])
       /\ \A i \in 1 .. Len(drafts'.records) : IsValidDate(drafts'.records[i])
       /\ saved_rec' # NoRecord => IsValidDate(saved_rec')
       /\ events' # events =>
              /\ [i \in 1 .. Len(events') |-> events'[i].id] = ConvertibleIds(db_events')
              /\ crashed' = ""]_vars

\* a table with an unconvertible row and a saved record was reloaded: the row
\* was skipped, the record asked for day 31 of month 2 is held as day 30, and
\* the parser returned a draft whose day 31 of month 12 became day 30
Wit_C8_SkippedAndClamped ==
    /\ \E i \in 1 .. Len(db_events) : db_events[i].month = JBad
    /\ Len(events) = Len(db_events) - 1
    /\ saved_rec # NoRecord
    /\ saved_rec.month = 2 /\ saved_rec.day = 30
    /\ \E i \in 1 .. Len(events) : events[i].id = saved_rec.id
    /\ drafts.records # <<>>
    /\ drafts.records[1].month = 12
    /\ drafts.records[1].day = 30

Contains(list, e) == \E i \in 1 .. Len(list) : list[i] = e

\* C9: for every event e of the events collection the lookup of the day index
\* built from the collection at (e.year, e.month, e.day) returns a list that
\* contains e, and so does the tile of that day when the year is on view.
Thm_C9_IndexRoundTrip ==
    \A i \in 1 .. Len(events) :
        LET e == events[i]
        IN  /\ Contains(index_get(indexed, <<e.year, e.month, e.day>>), e)
            /\ e.year = (IF current = NoneDate THEN BaseYear ELSE current.year) =>
                   Contains(month_cards(current, indexed)[<<e.month, e.day>>], e)

\* two events of the same day, both returned by the lookup of that day
Wit_C9_TwoEventsOneDay ==
    /\ Len(events) = 2
    /\ event_key(events[1]) = event_key(events[2])
    /\ events[1] # events[2]
    /\ Len(index_get(indexed, event_key(events[1]))) = 2

\* the triples a lookup may be asked for
LookupKeys ==
    DOMAIN indexed
        \cup {<<y, m, d>> : y \in (BaseYear - 1) .. (BaseYear + 1),
                            m \in {1, 2, NumMonths}, d \in {1, DAYS_PER_MONTH, DAYS_PER_MONTH + 1}}

\* C10: the list a lookup returns for a day holds only events whose
\* (year, month, day) equals the key, each event is under exactly one key, and
\* the lookup of a day without events returns the empty list; the details of a
\* day list the events of that exact triple.
Thm_C10_ExactTripleLookup ==
    /\ \A k \in LookupKeys :
          LET lst == index_get(indexed, k)
          IN  /\ \A j \in 1 .. Len(lst) : event_key(lst[j]) = k
              /\ (\A i \in 1 .. Len(events) : event_key(events[i]) # k) => lst = <<>>
    /\ \A i \in 1 .. Len(events) :
          {k \in DOMAIN indexed : Contains(indexed[k], events[i])}
              = {event_key(events[i])}
    /\ modal.kind = "day" =>
          \A j \in 1 .. Len(modal.day_events) :
              event_key(modal.day_events[j]) = <<modal.date.year, modal.date.month, modal.date.day>>

\* two events on the same month and day of different years, the details of
\* the day open on one of them, and the same day of a third year empty
Wit_C10_SameDayOtherYear ==
    /\ Len(events) = 2
    /\ events[1].month = events[2].month
    /\ events[1].day = events[2].day
    /\ events[1].year # events[2].year
    /\ modal.kind = "day"
    /\ Len(modal.day_events) = 1
    /\ index_get(indexed, <<BaseYear - 1, events[1].month, events[1].day>>) = <<>>

\* C11: reloading never changes the row objects load_events supplied: after
\* reload_events every supplied row still has the year, month, day, title and
\* id it was supplied with.
Ctr_C11_RowsNotMutated ==
    \A i \in 1 .. Len(loaded) : loaded[i].now = loaded[i].given

-----------------------------------------------------------------------------
(* Properties of the timeline, checked under TimelineSpec *)

SameDate(a, b) == a.year = b.year /\ a.month = b.month /\ a.day = b.day

\* the title carries a tag: "#", spaces if any, digits, and no letter after them
HasTag(title) == \E i \in 1 .. Len(title) : tag_at(title, i) # ""

\* a <= b in (ordinal, priority, lowercase title, id)
SortKeyLeq(a, b) ==
    LET oa == harptos_ordinal(a.year, a.month, a.day)
        ob == harptos_ordinal(b.year, b.month, b.day)
        pa == _priority_from_title(a.title)
        pb == _priority_from_title(b.title)
        ta == str_lower(a.title)
        tb == str_lower(b.title)
    IN  \/ oa < ob
        \/ oa = ob /\ pa < pb
        \/ oa = ob /\ pa = pb /\ ta # tb /\ str_less(ta, tb)
        \/ oa = ob /\ pa = pb /\ ta = tb /\ (a.id = b.id \/ str_less(a.id, b.id))

\* C12: for a collection with unique ids the timeline shows the same order for
\* every permutation of the collection, it shows each event once, and adjacent
\* events are non-decreasing in (ordinal, priority, lowercase title, id).
Thm_C12_TimelineOrder ==
    tl_stage \in {"sorted", "shown"} =>
        /\ tl_perm_sorted = tl_sorted
        /\ Len(tl_sorted) = Len(tl_rows)
        /\ \A i \in 1 .. Len(tl_rows) : \E j \in 1 .. Len(tl_sorted) : tl_sorted[j] = tl_rows[i]
        /\ \A i \in 1 .. (Len(tl_sorted) - 1) : SortKeyLeq(tl_sorted[i], tl_sorted[i + 1])

\* three events, two of them equal in date, priority and lowercase title, were
\* handed in two different orders and sorted
Wit_C12_PermutedTie ==
    /\ tl_stage = "sorted"
    /\ Len(tl_rows) = 3
    /\ tl_perm # tl_rows
    /\ tl_rows[1].id = "9" /\ tl_rows[2].id = "10"
    /\ tl_perm[1].id = "10"
    /\ tl_sorted # tl_rows

\* C13 as stated: of two events with the same date and the same priority the
\* one with the smaller id comes first in the timeline.
Ctr_C13_IdAloneDecides ==
    tl_stage \in {"sorted", "shown"} =>
        \A i, j \in 1 .. Len(tl_sorted) :
            (/\ i < j
             /\ SameDate(tl_sorted[i], tl_sorted[j])
             /\ _priority_from_title(tl_sorted[i].title)
                    = _priority_from_title(tl_sorted[j].title))
                => str_less(tl_sorted[i].id, tl_sorted[j].id)

\* C13 amended: of two events with the same date, the same priority and the
\* same lowercase title the one with the smaller id (ids compared as strings)
\* comes first in the timeline.
Thm_C13_IdBreaksTitleTies ==
    tl_stage \in {"sorted", "shown"} =>
        \A i, j \in 1 .. Len(tl_sorted) :
            (/\ i < j
             /\ SameDate(tl_sorted[i], tl_sorted[j])
             /\ _priority_from_title(tl_sorted[i].title)
                    = _priority_from_title(tl_sorted[j].title)
             /\ str_lower(tl_sorted[i].title) = str_lower(tl_sorted[j].title))
                => str_less(tl_sorted[i].id, tl_sorted[j].id)

\* the store held "9" before "10", their titles equal but for the case: the
\* timeline shows "10" first
Wit_C13_TieSortedById ==
    /\ tl_stage = "sorted"
    /\ Len(tl_rows) = 2
    /\ tl_rows[1].id = "9" /\ tl_rows[2].id = "10"
    /\ str_lower(tl_rows[1].title) = str_lower(tl_rows[2].title)
    /\ tl_sorted[1].id = "10" /\ tl_sorted[2].id = "9"

\* C14: of two events of the same date, one with a tag in its title and one
\* without, the tagged one comes first in the timeline, whatever the number
\* of the tag.
Ctr_C14_TaggedFirst ==
    tl_stage \in {"sorted", "shown"} =>
        \A i, j \in 1 .. Len(tl_sorted) :
            (/\ SameDate(tl_sorted[i], tl_sorted[j])
             /\ HasTag(tl_sorted[i].title)
             /\ ~HasTag(tl_sorted[j].title))
                => i < j

\* the haystack contains the search text, both taken without case
Expected(row, search) ==
    LET q == str_lower(str_strip(search))
    IN  q = "" \/ str_contains(str_lower(haystack_cased(row)), q)

\* C15: the filtered timeline holds exactly the events of the sorted timeline
\* whose haystack contains the query (the search text as _matches compares
\* it: stripped, case ignored), in the order of the sorted timeline; an empty
\* query keeps every event.
Thm_C15_FilterExact ==
    tl_stage = "shown" =>
        /\ \A i \in 1 .. Len(tl_sorted) :
              Expected(tl_sorted[i], tl_search)
                  <=> \E j \in 1 .. Len(tl_shown) : tl_shown[j] = tl_sorted[i]
        /\ \A j \in 1 .. Len(tl_shown) : \E i \in 1 .. Len(tl_sorted) : tl_sorted[i] = tl_shown[j]
        /\ \A j, k \in 1 .. Len(tl_shown) :
              j < k => \E a, b \in 1 .. Len(tl_sorted) :
                          a < b /\ tl_sorted[a] = tl_shown[j] /\ tl_sorted[b] = tl_shown[k]
        /\ str_strip(tl_search) = "" => tl_shown = tl_sorted

\* the search "ALE" kept the one event of three whose notes hold "ale"
Wit_C15_CaseIgnored ==
    /\ tl_stage = "shown"
    /\ tl_search = "ALE"
    /\ Len(tl_sorted) = 3
    /\ Len(tl_shown) = 1
    /\ tl_shown[1].notes = "bring #1 ale"

-----------------------------------------------------------------------------
(* Properties of the notes parser, checked under ParseSpec *)

NoBlocksFound == [records |-> <<>>, errors |-> <<ParseError(0, "no blocks")>>]

Openers(text) == {i \in 1 .. Len(text) : text[i].k = "[event]"}
Closers(text) == {i \in 1 .. Len(text) : text[i].k = "[/event]"}

\* the first marker after line i, 0 when there is none
NextMarker(text, i) ==
    LET after == {j \in Openers(text) \cup Closers(text) : j > i}
    IN  IF after = {} THEN 0 ELSE CHOOSE j \in after : \A k \in after : j <= k

RECURSIVE SpansInOrder(_, _)
\* the lines between each opening marker of the set and the marker after it
SpansInOrder(text, openers) ==
    IF openers = {} THEN <<>>
    ELSE LET i == CHOOSE k \in openers : \A j \in openers : k <= j
         IN  <<SubSeq(text, i + 1, NextMarker(text, i) - 1)>>
                 \o SpansInOrder(text, openers \ {i})

\* the blocks with both markers
ClosedBlocks(text) ==
    SpansInOrder(text, {i \in Openers(text) : NextMarker(text, i) \in Closers(text)})

\* the blocks with both markers, and the blocks left open that hold a line and
\* are followed by another opening marker
ClosedOrCutBlocks(text) ==
    SpansInOrder(text, {i \in Openers(text) :
                          \/ NextMarker(text, i) \in Closers(text)
                          \/ NextMarker(text, i) \in Openers(text) /\ NextMarker(text, i) > i + 1})

\* the result for a text whose blocks are these
ResultOf(blocks) ==
    IF blocks = <<>> THEN NoBlocksFound
    ELSE parse_blocks(blocks, 1, [records |-> <<>>, errors |-> <<>>])

\* C16: a text with no captured block (no opening marker at all, be there
\* stray closing markers or none, or one opening marker never closed) gives no
\* drafts and the one error "No [Event]...[/Event] blocks found.".
Thm_C16_NoBlocksError ==
    p_stage # "in" =>
        LET open == Openers(p_text)
            none == \/ open = {}
                    \/ Cardinality(open) = 1 /\ \A i \in open : NextMarker(p_text, i) = 0
        IN  (none \/ Len(p_parts) = 0) => p_out = NoBlocksFound

\* a text holding one opening marker, a title after it and no closing marker
Wit_C16_UnclosedOnly ==
    /\ p_stage = "parsed"
    /\ Cardinality(Openers(p_text)) = 1
    /\ Closers(p_text) = {}
    /\ Len(p_text) > 1
    /\ p_text[2].k = "title"
    /\ p_out = NoBlocksFound

\* C17 as stated: a block left open is never captured: the drafts are those of
\* the blocks that have both markers.
Ctr_C17_OpenNeverCaptured ==
    p_stage # "in" => p_out.records = ResultOf(ClosedBlocks(p_text)).records

\* C17 amended: a block left open is captured when it holds at least one line
\* and the next marker is another opening marker; it is not captured at the
\* end of the text or when it holds no line; text outside any block is ignored.
Thm_C17_OpenCapturedByNextOpener ==
    p_stage # "in" =>
        /\ Len(p_parts) = Len(ClosedOrCutBlocks(p_text))
        /\ p_out = ResultOf(ClosedOrCutBlocks(p_text))

\* a block left open with a title, then a block with both markers: two drafts
Wit_C17_CutBlockCaptured ==
    /\ p_stage = "parsed"
    /\ Cardinality(Openers(p_text)) = 2
    /\ Cardinality(Closers(p_text)) = 1
    /\ NextMarker(p_text, 1) \in Openers(p_text)
    /\ Len(p_parts) = 2
    /\ Len(p_out.records) = 2

\* a line that carries one of the recognized keys
KeyLine(ln) == ln.k \in {"year", "month", "day", "title", "notes", "date"}

\* a year, month or day line whose value cannot be used
InvalidDatePart(ln) ==
    \/ ln.k \in {"year", "day"} /\ ln.val.t # "int"
    \/ ln.k = "month" /\ ~(ln.val.t = "name" \/ (ln.val.t = "int" /\ ln.val.v \in 1 .. 12))

\* a date line whose value is given and is not an ISO calendar date
NonIsoDate(ln) == ln.k = "date" /\ ln.val.t \notin {"iso", "empty"}

\* C18: a block holding an invalid year, month or day value gives no drafts and
\* an error naming that block; every other block gives the drafts it gives
\* when parsed alone.
Ctr_C18_InvalidBlockDropped ==
    p_stage = "alone" =>
        \A i \in 1 .. Len(p_parts) :
            LET block == ClosedOrCutBlocks(p_text)[i]
            IN  IF \E j \in 1 .. Len(block) : InvalidDatePart(block[j])
                THEN /\ p_parts[i].records = <<>>
                     /\ \E e \in 1 .. Len(p_parts[i].errors) :
                            /\ p_parts[i].errors[e].block = i
                            /\ p_parts[i].errors[e].what \in {"year", "month", "day"}
                ELSE p_parts[i].records = p_alone[i].records

\* C19: a notes body holds the Notes value and the non-key lines after it: no
\* line carrying a recognized key is appended to the notes of a draft.
Ctr_C19_NotesEndAtKey ==
    p_stage # "in" =>
        \A r \in 1 .. Len(p_out.records) :
            \A n \in 1 .. Len(p_out.records[r].notes) :
                ~KeyLine(p_out.records[r].notes[n])

\* C20: a date line whose value is not an ISO calendar date adds an error for
\* its block and does not drop the block: unless a year, month or day value is
\* invalid, the block's drafts are returned.
Ctr_C20_NonIsoDateReported ==
    p_stage # "in" =>
        \A i \in 1 .. Len(p_parts) :
            LET block == ClosedOrCutBlocks(p_text)[i]
            IN  (\E j \in 1 .. Len(block) : NonIsoDate(block[j])) =>
                    /\ \E e \in 1 .. Len(p_parts[i].errors) :
                            p_parts[i].errors[e] = ParseError(i, "date")
                    /\ (\A j \in 1 .. Len(block) : ~InvalidDatePart(block[j]))
                            => p_parts[i].records # <<>>

RECURSIVE InOrder(_)
\* the numbers of a set, smallest first
InOrder(S) ==
    IF S = {} THEN <<>>
    ELSE LET i == CHOOSE k \in S : \A j \in S : k <= j
         IN  <<i>> \o InOrder(S \ {i})

\* the value of the last line of the block with this key, or the default
LastValue(block, key, default) ==
    LET at == {j \in 1 .. Len(block) : block[j].k = key}
    IN  IF at = {} THEN default
        ELSE block[CHOOSE j \in at : \A k \in at : k <= j].val.v

\* the normalized date the year, month and day lines of a block give
BlockDate(block) ==
    sanitize_harptos_date(LastValue(block, "year", DEFAULT_CURRENT.year),
                          LastValue(block, "month", DEFAULT_CURRENT.month),
                          LastValue(block, "day", DEFAULT_CURRENT.day))

\* the last ISO date of the lines from..to of a block, or the default
LastIso(block, from, to, default) ==
    LET at == {j \in from .. to : block[j].k = "date" /\ block[j].val.t = "iso"}
    IN  IF at = {} THEN default
        ELSE block[CHOOSE j \in at : \A k \in at : k <= j].val

\* what C21 says of block i of the text: one draft per Title line, in title
\* order, all on one normalized date, which is the date of the block's year,
\* month and day lines when no Notes line is in the block; each draft carries
\* the ISO date given before the first title unless an ISO date line after its
\* own title overrides it
DraftPerTitle(i) ==
    LET block  == ClosedOrCutBlocks(p_text)[i]
        titles == InOrder({j \in 1 .. Len(block) : block[j].k = "title"})
        k      == Len(titles)
        end(t) == IF t = k THEN Len(block) ELSE titles[t + 1] - 1
        recs   == p_parts[i].records
        ymd(r) == [year |-> r.year, month |-> r.month, day |-> r.day]
        before == LastIso(block, 1, titles[1] - 1, NoIso)
        plain(from, to) == \A j \in from .. to : block[j].k # "notes"
    IN  /\ Len(recs) = k
        /\ \A t \in 1 .. k :
             /\ recs[t].title = IF block[titles[t]].val.t = "empty" THEN Untitled
                                ELSE block[titles[t]].val
             /\ ymd(recs[t]) = ymd(recs[1])
             /\ ymd(recs[t]) = sanitize_harptos_date(recs[t].year, recs[t].month, recs[t].day)
             /\ plain(1, Len(block)) => ymd(recs[t]) = BlockDate(block)
             /\ recs[t].real_world_date \in
                    {before} \cup {block[j].val : j \in {n \in titles[t] + 1 .. end(t) :
                                        block[n].k = "date" /\ block[n].val.t = "iso"}}
             /\ plain(titles[t], end(t)) =>
                    recs[t].real_world_date = LastIso(block, titles[t] + 1, end(t), before)

\* a block with at least one Title line and no Notes line before the first
TitledBlock(block) ==
    /\ \E j \in 1 .. Len(block) : block[j].k = "title"
    /\ \A j \in 1 .. Len(block) :
          block[j].k = "notes" => \E n \in 1 .. j - 1 : block[n].k = "title"

-----------------------------------------------------------------------------
(* Properties of the event form, checked under Spec *)

IdsOf(rows) == {rows[i].id : i \in 1 .. Len(rows)}

\* a step of _save_event: the record built is stored, from the form, and the
\* details of its day are shown
SaveStep ==
    /\ modal.kind = "form"
    /\ modal'.kind = "day"
    /\ modal'.date = HarptosDate(saved_rec'.year, saved_rec'.month, saved_rec'.day)
    /\ selected_event_id' = NoId
    /\ saved_rec'.id # NoId
    /\ \E i \in 1 .. Len(db_events') : db_events'[i] = StoredRow(saved_rec')
    /\ Len(db_events') >= Len(db_events)
    /\ saved_rec' # saved_rec \/ db_events' # db_events

-----------------------------------------------------------------------------
(* Properties of the day steps, checked under DateSpec *)

FirstOf(y) == [year |-> y, month |-> 1, day |-> 1]

\* C23: harptos_ordinal(advance_one(x)) = harptos_ordinal(x) + 1 for every
\* valid date x; n applications from (y,1,1) raise the ordinal by n, and they
\* reach (y+1,1,1) when n = 365 and for no smaller n >= 1 (360 applications
\* from (1492,1,1) do not reach (1493,1,1)).
Thm_C23_SuccessorAndYearLength ==
    /\ stage = "ord" => (IsValidDate(hA) /\ ordB = ordA + 1)
    /\ stage = "walk" =>
          /\ hA = FirstOf(hA.year)
          /\ ordB = ordA + steps
          /\ steps <= 365 => (hB = FirstOf(hA.year + 1) <=> steps = 365)
          /\ (hA = FirstOf(1492) /\ steps = 360) => hB # FirstOf(1493)

\* 365 applications of advance_one from (1492,1,1) gave (1493,1,1)
Wit_C23_YearWalked ==
    /\ stage = "walk"
    /\ steps = 365
    /\ hA = FirstOf(1492)
    /\ hB = FirstOf(1493)

\* C28: step_harptos(h, MONTHS, 30) = advance_one(h) for every valid date h,
\* day 30 of a festival month and day 31 included, so that a walk from the
\* first day of a year stays the same under both and both reach the first day
\* of the next year after 365 days.
Ctr_C28_OneCalendarScheme ==
    /\ stage = "step" => (IsValidDate(hA) /\ hS = hB)
    /\ stage = "walk" => hS = hB
    /\ (stage = "walk" /\ steps = 365) => hS = FirstOf(hA.year + 1)

-----------------------------------------------------------------------------
(* Properties of the current date over many handlers, checked under SyncSpec *)

\* the stored value is the JSON of a valid HarptosDate
StoresValidDate(c) ==
    /\ c.kind = "dict"
    /\ \A f \in {c.year, c.month, c.day} : f.t = "int"
    /\ IsValidDate([year |-> c.year.v, month |-> c.month.v, day |-> c.day.v])

\* C24: after any sequence of sync runs, apply-current, jump-to-saved and
\* save-current, the reactive value `current` is unset or a valid HarptosDate,
\* the date a sync run is about to write is valid, and every value written to
\* "current_date" is a valid HarptosDate: advance_one keeps dates valid.
Thm_C24_CurrentStaysValid ==
    /\ [](current = NoneDate \/ IsValidDate(current))
    /\ [](\A r \in Runners : run[r].pc \in {"setcur", "setlast"} => IsValidDate(run[r].h))
    /\ [][db_cur' # db_cur => StoresValidDate(db_cur')]_vars

\* a run read day 30 of the last month with last_checked one day back and has
\* written the first day of the next year
Wit_C24_AdvancedOverYearEnd ==
    \E r \in Runners :
        /\ run[r].pc = "setlast"
        /\ ReadableDate(run[r].seen) = [year |-> 1492, month |-> 12, day |-> 30]
        /\ ElapsedDays(run[r].raw_last, run[r].today) = 1
        /\ current = [year |-> 1493, month |-> 1, day |-> 1]
        /\ db_cur = StoredDate(current)

-----------------------------------------------------------------------------
(* Properties of sync runs that follow or cross one another *)

\* the clock never ran behind the last_checked found at first: it is a date,
\* and not later than the first day of the session
ClockAhead == last0.kind = "iso" /\ last0.v <= 0

OrdinalOfDate(h) == harptos_ordinal(h.year, h.month, h.day)

\* a step that ends the run r
RunEnds(r) == run[r].pc = "setlast" /\ run'[r].pc = "idle"

\* C25 (checked under RunsSpec): with sync runs one after another, every write
\* succeeding and the clock never behind last_checked, each run leaves as
\* persisted current date the first date advanced by (today - first
\* last_checked) days, today being the day the run read, and leaves that day
\* as last_checked; a run that finds last_checked already at its day, and a
\* valid date stored, changes neither value.
Thm_C25_RunsAddUp ==
    /\ [][ClockAhead =>
            \A r \in Runners :
                RunEnds(r) =>
                    /\ db_cur' = StoredDate(AdvancedBy(ReadableDate(cur0),
                                                       run[r].today - last0.v))
                    /\ db_last' = IsoDate(run[r].today)]_vars
    /\ [][\A r \in Runners :
            (/\ run[r].pc \in {"setcur", "setlast"}
             /\ run[r].raw_last = IsoDate(run[r].today)
             /\ db_last = IsoDate(run[r].today)
             /\ StoresValidDate(run[r].seen))
            => (db_cur' = db_cur /\ db_last' = db_last)]_vars

\* (1492,1,30) was advanced to Midwinter by a run on day 1, and a run on day 2
\* has read Midwinter and written (1492,2,1)
Wit_C25_SecondRunNextDay ==
    \E r \in Runners :
        /\ ClockAhead
        /\ ReadableDate(cur0) = [year |-> 1492, month |-> 1, day |-> 30]
        /\ run[r].pc = "setlast"
        /\ run[r].seen = StoredDate([year |-> 1492, month |-> 1, day |-> 31])
        /\ run[r].raw_last = IsoDate(1)
        /\ run[r].today = 2
        /\ db_cur = StoredDate([year |-> 1492, month |-> 2, day |-> 1])

\* C26 (checked under RaceSpec): when sync runs cross at their awaits, the
\* persisted current date, once no run is under way, is the date one run alone
\* gives: the first date advanced by the days from the first last_checked to
\* the persisted last_checked; no advancement is lost, none is applied twice.
Ctr_C26_CrossingRunsAgree ==
    (ClockAhead /\ AllIdle /\ db_last.kind = "iso") =>
        ReadableDate(db_cur) = AdvancedBy(ReadableDate(cur0), db_last.v - last0.v)

\* C27 (checked under FailSpec): with set_state writes that may fail, the
\* persisted current date is never more days ahead of the first date than days
\* have passed since the first last_checked, and between runs never more days
\* ahead than the persisted last_checked is.
Ctr_C27_NeverAdvancedTwice ==
    ClockAhead =>
        LET ahead == OrdinalOfDate(ReadableDate(db_cur)) - OrdinalOfDate(ReadableDate(cur0))
        IN  /\ ahead <= today - last0.v
            /\ (AllIdle /\ db_last.kind = "iso") => ahead <= db_last.v - last0.v

====
